---------------------------- MODULE Spec2Model ----------------------------
(***************************************************************************)
(* State-machine model of the audit-monitor edge functions:                *)
(*   supabase/functions/analyze-transactions/index.ts  (analysis)          *)
(*   the report-generation function (src/unnamed/part_002)                 *)
(*                                                                         *)
(* Representation choices                                                  *)
(*  - A JavaScript string that the code trims, uppercases or compares is   *)
(*    a sequence of one-character strings, so that trim() and              *)
(*    toUpperCase() are computed, not assumed.                             *)
(*  - Transaction.amount is a number of currency units; the model holds    *)
(*    it as an integer number of thousandths of a unit (MILLS_PER_UNIT),   *)
(*    so that amounts that differ below one cent exist.                    *)
(*  - A JavaScript Map is a sequence of [key, value] entries in insertion  *)
(*    order (the order a for..of loop over the Map visits them).           *)
(*  - A template string is a record [text, arg]: the template and the      *)
(*    value interpolated into it.                                          *)
(***************************************************************************)
EXTENDS Integers, Sequences, FiniteSets, TLC

VARIABLES
    transactions,     \* analysis request body: the batch (index.ts:268)
    pc,               \* position of the handler of the latest request
    duplicateGroups,  \* index.ts:278
    assessments,      \* index.ts:282
    response,         \* the Response the handler returned, or NoResponse
    now,              \* Date.now(), milliseconds
    rateLimitStore,   \* rateLimitStore of each edge function (index.ts:14,
                      \* part_002:13): user id -> {count, resetTime}
    target,           \* the edge function the callers address
    request,          \* the latest request that reached the rate limiter:
                      \* its function, its caller and the entry userLimit
                      \* the limiter found for the caller
    admitted,         \* history: per function and user, the start of the
                      \* fixed window the user is in and the number of
                      \* requests not answered 429 since then
    handlers,         \* the invocations of the serve callback that run at
                      \* the same time in one process: where each one is
                      \* suspended (its await) and its caller
    aiCalls,          \* history: the calls of fetch to the narrative
                      \* generator the invocation has made
    aiResponse,       \* what the await of fetch gave (index.ts:345,
                      \* part_002:282), or NoReply
    req,              \* the HTTP request of the invocation: its
                      \* Authorization header, the subject of its token
                      \* and the sessionId of its body
    audit_reports,    \* the rows of public.audit_reports
    sessionStats,     \* part_002:217-225: the statistics the report
                      \* handler has built from the rows it selected for
                      \* its prompt, or NoStats
    upload,           \* position of handleUpload (Upload.tsx:215-323)
    session,          \* the row handleUpload inserted into
                      \* public.analysis_sessions, or NoSession
    insertedTx,       \* the rows handleUpload inserted into
                      \* public.transactions
    risk_assessments, \* the rows handleUpload inserted into
                      \* public.risk_assessments
    env               \* Deno.env: the names that have a value

vars == <<transactions, pc, duplicateGroups, assessments, response,
          now, rateLimitStore, target, request, admitted, handlers,
          aiCalls, aiResponse, req, audit_reports, sessionStats,
          upload, session, insertedTx, risk_assessments, env>>

callVars == <<aiCalls, aiResponse>>

storedVars == <<req, audit_reports, env>>

uploadVars == <<upload, session, insertedTx, risk_assessments>>

limiterVars == <<now, rateLimitStore, target, request, admitted, handlers>>

(***************************************************************************)
(* Strings                                                                 *)
(***************************************************************************)
LowerCaseLetters ==
    <<"a","b","c","d","e","f","g","h","i","j","k","l","m",
      "n","o","p","q","r","s","t","u","v","w","x","y","z">>

UpperCaseLetters ==
    <<"A","B","C","D","E","F","G","H","I","J","K","L","M",
      "N","O","P","Q","R","S","T","U","V","W","X","Y","Z">>

WhiteSpace == {" ", "\t", "\n"}

\* String.prototype.toUpperCase, one character
UpperOf ==
    [c \in {LowerCaseLetters[i] : i \in 1..Len(LowerCaseLetters)} |->
        UpperCaseLetters[CHOOSE i \in 1..Len(LowerCaseLetters) : LowerCaseLetters[i] = c]]

UpperChar(c) == IF c \in DOMAIN UpperOf THEN UpperOf[c] ELSE c

\* String.prototype.toUpperCase
toUpperCase(s) == [i \in 1..Len(s) |-> UpperChar(s[i])]

\* String.prototype.trim: drops the white space at both ends
RECURSIVE trimStart(_)
trimStart(s) ==
    IF s # <<>> /\ Head(s) \in WhiteSpace THEN trimStart(Tail(s)) ELSE s

RECURSIVE trimEnd(_)
trimEnd(s) ==
    IF s # <<>> /\ s[Len(s)] \in WhiteSpace
    THEN trimEnd(SubSeq(s, 1, Len(s) - 1))
    ELSE s

trim(s) == trimEnd(trimStart(s))

\* (x ?? "").trim().toUpperCase(), index.ts:69, 101, 106, 175
\* null / undefined: a value no string equals
NullValue == <<"<null>">>

NormalizeText(x) == toUpperCase(trim(IF x = NullValue THEN <<>> ELSE x))

(***************************************************************************)
(* Amounts                                                                 *)
(***************************************************************************)
MILLS_PER_UNIT == 1000

\* Math.round(x) for x = n / d, n >= 0, d > 0: the nearest integer, halves up
MathRound(n, d) == (2 * n + d) \div (2 * d)

\* Math.round((Number(tx.amount) || 0) * 100), index.ts:71
AmountCents(amount) == MathRound(amount, MILLS_PER_UNIT \div 100)

(***************************************************************************)
(* Duplicate grouper, index.ts:65-92                                       *)
(***************************************************************************)
\* the key `${vendor}|${date}|${amount}`, index.ts:75
GroupKey(vendor, date, amount) == <<vendor, date, amount>>

\* groups.get(key): index of the entry of key in the Map, 0 when absent
MapIndex(groups, key) ==
    IF \E i \in 1..Len(groups) : groups[i].key = key
    THEN CHOOSE i \in 1..Len(groups) : groups[i].key = key
    ELSE 0

\* AddToGroups without the skip of a blank vendor
AddToGroupsBlankToo(groups, tx) ==
    LET vendor == NormalizeText(tx.vendor_name)
        key    == GroupKey(vendor, tx.transaction_date, AmountCents(tx.amount))
        at     == MapIndex(groups, key)
    IN  IF at = 0
        THEN Append(groups, [key |-> key, ids |-> <<tx.id>>])
        ELSE [groups EXCEPT ![at].ids = Append(@, tx.id)]

\* AddToGroups with groups.set(key, [tx.id]): the members met before are lost
AddToGroupsOverwrite(groups, tx) ==
    LET vendor == NormalizeText(tx.vendor_name)
        key    == GroupKey(vendor, tx.transaction_date, AmountCents(tx.amount))
        at     == MapIndex(groups, key)
    IN  IF vendor = <<>> THEN groups
        ELSE IF at = 0
             THEN Append(groups, [key |-> key, ids |-> <<tx.id>>])
             ELSE [groups EXCEPT ![at].ids = <<tx.id>>]

\* one iteration of the loop of buildDuplicateGroups, index.ts:68-79
AddToGroups(groups, tx) ==
    LET vendor == NormalizeText(tx.vendor_name)
        date   == tx.transaction_date
        amount == AmountCents(tx.amount)
        key    == GroupKey(vendor, date, amount)
        at     == MapIndex(groups, key)
    IN  IF vendor = <<>> THEN groups
        ELSE IF at = 0
             THEN Append(groups, [key |-> key, ids |-> <<tx.id>>])
             ELSE [groups EXCEPT ![at].ids = Append(@, tx.id)]

RECURSIVE buildGroupsFrom(_, _)
buildGroupsFrom(groups, txs) ==
    IF txs = <<>> THEN groups
    ELSE buildGroupsFrom(AddToGroups(groups, Head(txs)), Tail(txs))

buildDuplicateGroups(txs) == buildGroupsFrom(<<>>, txs)

SeqIncludes(s, x) == \E i \in 1..Len(s) : s[i] = x

\* isDuplicate that takes a transaction for a duplicate only when it is not
\* the first member of its group (it repeats an earlier one)
isDuplicateOfEarlier(txId, groups) ==
    LET hits == {i \in 1..Len(groups) :
                    /\ SeqIncludes(groups[i].ids, txId)
                    /\ Len(groups[i].ids) > 1
                    /\ groups[i].ids[1] # txId}
    IN  IF hits = {} THEN [isDup |-> FALSE, count |-> 0]
        ELSE LET first == CHOOSE i \in hits : \A j \in hits : i <= j
             IN  [isDup |-> TRUE, count |-> Len(groups[first].ids)]

\* isDuplicate, index.ts:85-92: the first group, in Map order, that holds
\* the id and has more than one member
isDuplicate(txId, groups) ==
    LET hits == {i \in 1..Len(groups) :
                    SeqIncludes(groups[i].ids, txId) /\ Len(groups[i].ids) > 1}
    IN  IF hits = {} THEN [isDup |-> FALSE, count |-> 0]
        ELSE LET first == CHOOSE i \in hits : \A j \in hits : i <= j
             IN  [isDup |-> TRUE, count |-> Len(groups[first].ids)]

(***************************************************************************)
(* Rule evaluator, index.ts:94-201                                         *)
(***************************************************************************)
MEDIUM_RISK_COUNTRIES == {<<"P","A","N","A","M","A">>, <<"U","A","E">>}

UNITED_ARAB_EMIRATES ==
    <<"U","N","I","T","E","D"," ","A","R","A","B"," ",
      "E","M","I","R","A","T","E","S">>

Template(text, arg) == [text |-> text, arg |-> arg]

\* NormalizeCountry without the line that maps the long name to UAE
NormalizeCountryNoAlias(country) == NormalizeText(country)

\* index.ts:106-107
NormalizeCountry(country) ==
    LET c == NormalizeText(country)
    IN  IF c = UNITED_ARAB_EMIRATES THEN <<"U","A","E">> ELSE c

\* SameVendorSameDateCount over the vendor names as written
SameVendorSameDateCountRaw(vendorName, txDate, allTransactions) ==
    Cardinality({i \in 1..Len(allTransactions) :
        /\ toUpperCase(IF allTransactions[i].vendor_name = NullValue
                       THEN <<>> ELSE allTransactions[i].vendor_name) = vendorName
        /\ allTransactions[i].transaction_date = txDate})

\* index.ts:174-178
SameVendorSameDateCount(vendorName, txDate, allTransactions) ==
    Cardinality({i \in 1..Len(allTransactions) :
        /\ NormalizeText(allTransactions[i].vendor_name) = vendorName
        /\ allTransactions[i].transaction_date = txDate})

\* RULE 1, index.ts:117-126
DuplicateResult(count) ==
    [level |-> "high", score |-> 90,
     why |-> Template("Rule 1 triggered: Duplicate transaction (${count} occurrences)",
                      <<count>>),
     factors |-> << [type |-> "duplicate_transaction",
                     description |-> Template(
                        "DUPLICATE TRANSACTION (Rule 1): Same vendor, amount, and date occurs ${count} times",
                        <<count>>),
                     severity |-> "HIGH"] >>]

\* RULE 2, index.ts:132-141
HighValueResult(amount) ==
    [level |-> "high", score |-> 85,
     why |-> Template("Rule 2 triggered: Amount > 1,000,000", <<>>),
     factors |-> << [type |-> "high_value_transaction",
                     description |-> Template(
                        "HIGH-VALUE TRANSACTION (Rule 2): Amount ${amount} exceeds 1,000,000",
                        <<amount>>),
                     severity |-> "HIGH"] >>]

\* MediumValueResult with the severity of the band above
MediumValueResultHighSeverity(amount) ==
    [level |-> "medium", score |-> 60,
     why |-> Template("Rule 2 triggered: Amount between 500,000 and 1,000,000", <<>>),
     factors |-> << [type |-> "high_value_transaction",
                     description |-> Template(
                        "HIGH-VALUE TRANSACTION (Rule 2): Amount ${amount} is between 500,000 and 1,000,000",
                        <<amount>>),
                     severity |-> "HIGH"] >>]

\* RULE 2, index.ts:146-155
MediumValueResult(amount) ==
    [level |-> "medium", score |-> 60,
     why |-> Template("Rule 2 triggered: Amount between 500,000 and 1,000,000", <<>>),
     factors |-> << [type |-> "high_value_transaction",
                     description |-> Template(
                        "HIGH-VALUE TRANSACTION (Rule 2): Amount ${amount} is between 500,000 and 1,000,000",
                        <<amount>>),
                     severity |-> "MEDIUM"] >>]

\* RULE 3, index.ts:160-169
VendorCountryResult(vendorCountry) ==
    [level |-> "medium", score |-> 50,
     why |-> Template("Rule 3 triggered: Vendor country is ${vendorCountry}",
                      vendorCountry),
     factors |-> << [type |-> "vendor_country_risk",
                     description |-> Template(
                        "VENDOR COUNTRY RISK (Rule 3): Vendor country is ${vendorCountry}",
                        vendorCountry),
                     severity |-> "MEDIUM"] >>]

\* RULE 4, index.ts:181-190
FrequencyResult(count) ==
    [level |-> "medium", score |-> 45,
     why |-> Template("Rule 4 triggered: ${count} payments to same vendor on same date",
                      <<count>>),
     factors |-> << [type |-> "frequency_risk",
                     description |-> Template(
                        "FREQUENCY RISK (Rule 4): ${count} payments to the same vendor on the same date",
                        <<count>>),
                     severity |-> "MEDIUM"] >>]

\* index.ts:195-200
LowResult ==
    [level |-> "low", score |-> 0,
     why |-> Template("No rule triggered", <<>>),
     factors |-> <<>>]

\* analyzeTransaction with the high-value rule ahead of the duplicate rule
analyzeTransactionValueFirst(transaction, allTransactions, groups) ==
    LET vendorName    == NormalizeText(transaction.vendor_name)
        amount        == transaction.amount
        vendorCountry == NormalizeCountry(transaction.vendor_country)
        dup           == isDuplicate(transaction.id, groups)
        sameVendorSameDateCount ==
            SameVendorSameDateCount(vendorName, transaction.transaction_date,
                                    allTransactions)
    IN  IF amount > 1000000 * MILLS_PER_UNIT THEN HighValueResult(amount)
        ELSE IF amount >= 500000 * MILLS_PER_UNIT /\ amount <= 1000000 * MILLS_PER_UNIT
             THEN MediumValueResult(amount)
        ELSE IF dup.isDup THEN DuplicateResult(dup.count)
        ELSE IF vendorCountry # <<>> /\ vendorCountry \in MEDIUM_RISK_COUNTRIES
             THEN VendorCountryResult(vendorCountry)
        ELSE IF vendorName # <<>> /\ sameVendorSameDateCount > 1
             THEN FrequencyResult(sameVendorSameDateCount)
        ELSE LowResult

\* analyzeTransaction with amount >= 1000000 as the HIGH band
analyzeTransactionInclusiveHigh(transaction, allTransactions, groups) ==
    LET vendorName    == NormalizeText(transaction.vendor_name)
        amount        == transaction.amount
        vendorCountry == NormalizeCountry(transaction.vendor_country)
        dup           == isDuplicate(transaction.id, groups)
        sameVendorSameDateCount ==
            SameVendorSameDateCount(vendorName, transaction.transaction_date,
                                    allTransactions)
    IN  IF dup.isDup THEN DuplicateResult(dup.count)
        ELSE IF amount >= 1000000 * MILLS_PER_UNIT THEN HighValueResult(amount)
        ELSE IF amount >= 500000 * MILLS_PER_UNIT /\ amount <= 1000000 * MILLS_PER_UNIT
             THEN MediumValueResult(amount)
        ELSE IF vendorCountry # <<>> /\ vendorCountry \in MEDIUM_RISK_COUNTRIES
             THEN VendorCountryResult(vendorCountry)
        ELSE IF vendorName # <<>> /\ sameVendorSameDateCount > 1
             THEN FrequencyResult(sameVendorSameDateCount)
        ELSE LowResult

\* analyzeTransaction, index.ts:94-201
analyzeTransaction(transaction, allTransactions, groups) ==
    LET vendorName    == NormalizeText(transaction.vendor_name)
        txDate        == transaction.transaction_date
        amount        == transaction.amount
        vendorCountry == NormalizeCountry(transaction.vendor_country)
        dup           == isDuplicate(transaction.id, groups)
        sameVendorSameDateCount ==
            SameVendorSameDateCount(vendorName, txDate, allTransactions)
    IN  IF dup.isDup THEN DuplicateResult(dup.count)
        ELSE IF amount > 1000000 * MILLS_PER_UNIT THEN HighValueResult(amount)
        ELSE IF amount >= 500000 * MILLS_PER_UNIT /\ amount <= 1000000 * MILLS_PER_UNIT
             THEN MediumValueResult(amount)
        ELSE IF vendorCountry # <<>> /\ vendorCountry \in MEDIUM_RISK_COUNTRIES
             THEN VendorCountryResult(vendorCountry)
        ELSE IF vendorName # <<>> /\ sameVendorSameDateCount > 1
             THEN FrequencyResult(sameVendorSameDateCount)
        ELSE LowResult


(***************************************************************************)
(* Rate limiter, index.ts:9-33 and part_002:8-32                           *)
(***************************************************************************)
ANALYZE == "analyze-transactions"

REPORT == "generate-report"

Functions == {ANALYZE, REPORT}

\* the authenticated callers, claimsData.claims.sub (index.ts:240)
Users == {"user-1", "user-2"}

\* no entry in the Map: rateLimitStore.get(userId) is undefined
NoEntry == [count |-> 0, resetTime |-> 0]

\* rateLimitStore.get(userId), index.ts:18
MapGet(store, userId) == IF userId \in DOMAIN store THEN store[userId] ELSE NoEntry

NoRequest == [fn |-> "none", userId |-> "none", userLimit |-> NoEntry]

NoWindow == [since |-> 0, count |-> 0]

\* the invocations of the serve callback one process runs at the same time
Handlers == {"h1", "h2", "h3"}

Idle == [pc |-> "idle", userId |-> "none"]

\* index.ts:10
RATE_LIMIT_WINDOW_MS == 60 * 60 * 1000

\* index.ts:11
MAX_REQUESTS_PER_WINDOW == 10

\* part_002:9 (RATE_LIMIT_WINDOW_MS of the report function)
REPORT_RATE_LIMIT_WINDOW_MS == 24 * 60 * 60 * 1000

\* part_002:10
MAX_REPORTS_PER_WINDOW == 20

WindowMs(fn) == IF fn = ANALYZE THEN RATE_LIMIT_WINDOW_MS ELSE REPORT_RATE_LIMIT_WINDOW_MS

MaxPerWindow(fn) == IF fn = ANALYZE THEN MAX_REQUESTS_PER_WINDOW ELSE MAX_REPORTS_PER_WINDOW

\* Math.ceil(n / d) for n >= 0, d > 0
MathCeil(n, d) == (n + d - 1) \div d

\* rateLimitStore.set that writes the entry under every key of the Map
MapSetEveryKey(store, userId, entry) ==
    [u \in DOMAIN store \cup {userId} |-> entry]

\* rateLimitStore.set(userId, entry)
MapSet(store, userId, entry) ==
    [u \in DOMAIN store \cup {userId} |-> IF u = userId THEN entry ELSE store[u]]

\* checkRateLimit with count > MAX as the test of the ceiling
checkRateLimitOffByOne(store, userId, at, windowMs, max) ==
    IF userId \notin DOMAIN store \/ at >= store[userId].resetTime
    THEN [allowed |-> TRUE, retryAfter |-> 0,
          store |-> MapSet(store, userId, [count |-> 1, resetTime |-> at + windowMs])]
    ELSE IF store[userId].count > max
    THEN [allowed |-> FALSE,
          retryAfter |-> MathCeil(store[userId].resetTime - at, 1000),
          store |-> store]
    ELSE [allowed |-> TRUE, retryAfter |-> 0,
          store |-> [store EXCEPT ![userId].count = @ + 1]]

\* checkRateLimit that lets a request through without counting it
checkRateLimitLostIncrement(store, userId, at, windowMs, max) ==
    IF userId \notin DOMAIN store \/ at >= store[userId].resetTime
    THEN [allowed |-> TRUE, retryAfter |-> 0,
          store |-> MapSet(store, userId, [count |-> 1, resetTime |-> at + windowMs])]
    ELSE IF store[userId].count >= max
    THEN [allowed |-> FALSE,
          retryAfter |-> MathCeil(store[userId].resetTime - at, 1000),
          store |-> store]
    ELSE [allowed |-> TRUE, retryAfter |-> 0, store |-> store]

\* checkRateLimit that resets the window only after the reset time
checkRateLimitLateReset(store, userId, at, windowMs, max) ==
    IF userId \notin DOMAIN store \/ at > store[userId].resetTime
    THEN [allowed |-> TRUE, retryAfter |-> 0,
          store |-> MapSet(store, userId, [count |-> 1, resetTime |-> at + windowMs])]
    ELSE IF store[userId].count >= max
    THEN [allowed |-> FALSE,
          retryAfter |-> MathCeil(store[userId].resetTime - at, 1000),
          store |-> store]
    ELSE [allowed |-> TRUE, retryAfter |-> 0,
          store |-> [store EXCEPT ![userId].count = @ + 1]]

\* checkRateLimit, index.ts:16-33 and part_002:15-32, on the Map store at the
\* time at = Date.now(); the result and the Map it leaves
checkRateLimit(store, userId, at, windowMs, max) ==
    IF userId \notin DOMAIN store \/ at >= store[userId].resetTime
    THEN [allowed |-> TRUE, retryAfter |-> 0,
          store |-> MapSet(store, userId, [count |-> 1, resetTime |-> at + windowMs])]
    ELSE IF store[userId].count >= max
    THEN [allowed |-> FALSE,
          retryAfter |-> MathCeil(store[userId].resetTime - at, 1000),
          store |-> store]
    ELSE [allowed |-> TRUE, retryAfter |-> 0,
          store |-> [store EXCEPT ![userId].count = @ + 1]]

\* the 429 Response, index.ts:246-259 and part_002:97-110
RateLimitResponse(retryAfter) ==
    [status |-> 429,
     error |-> "Rate limit exceeded. Please try again later.",
     retry_after |-> retryAfter,
     headers |-> [RetryAfter |-> retryAfter]]

(***************************************************************************)
(* Analysis handler, index.ts:203-447                                      *)
(***************************************************************************)
NoResponse == [status |-> 0]

\* the report handler has selected no rows and built no statistics
NoStats == [session_id |-> "none"]

\* handleUpload has inserted no row into public.analysis_sessions
NoSession == [status |-> "none"]

\* handleUpload has not been called: nothing of the upload is stored
UploadNotStarted ==
    /\ upload = "idle"
    /\ session = NoSession
    /\ insertedTx = <<>>
    /\ risk_assessments = <<>>

\* The message of an Error is a sequence of parts; the text of the message
\* is the parts one after the other.
RECURSIVE Text(_)
Text(message) ==
    IF message = <<>> THEN "" ELSE Head(message) \o Text(Tail(message))

\* String.prototype.includes, for a searched text that is a whole part
includes(message, msg) == \E i \in 1..Len(message) : message[i] = msg

\* the message of the SyntaxError that JSON.parse and Body.json() throw in
\* the runtime of the edge functions: it quotes the text that was parsed
\* from the place of the error on, ten characters at most; the texts here
\* are wrong from their first character on
Excerpt(text) == IF Len(text) <= 10 THEN text ELSE SubSeq(text, 1, 10)

SyntaxErrorMessage(text) ==
    <<"Unexpected token, ", Excerpt(text), "... is not valid JSON">>

\* a text that is not JSON
HTML_TEXT == "<html>"

\* the text of a piece of prose
PROSE_TEXT == "prose"

\* index.ts:435, part_002:381
userSafeErrors(fn) ==
    IF fn = ANALYZE THEN {"No transactions provided"}
    ELSE {"Session ID is required", "Session not found or access denied"}

\* texts that are not JSON: some markup, and a text that names an error the
\* catch of fn passes on
BodyTexts(fn) == {HTML_TEXT} \cup userSafeErrors(fn)

\* a catch that returns the message of every Error
AnalysisCatchUnsanitized(message) == [status |-> 500, error |-> Text(message)]

\* the catch of the analysis handler, index.ts:432-446
AnalysisCatch(message) ==
    [status |-> 500,
     error |-> IF \E msg \in userSafeErrors(ANALYZE) : includes(message, msg)
               THEN Text(message) ELSE "Analysis failed. Please try again."]

\* the catch of the report handler, part_002:378-392
ReportCatch(message) ==
    [status |-> 500,
     error |-> IF \E msg \in userSafeErrors(REPORT) : includes(message, msg)
               THEN Text(message) ELSE "Report generation failed. Please try again."]

\* a request of user-1 whose credentials are accepted
AcceptedRequest ==
    [authorization |-> "Bearer valid", sub |-> "user-1", sessionId |-> "session-1",
     body |-> [json |-> TRUE, transactions |-> "list"]]

\* the names the two functions read from Deno.env, index.ts:218-219, 262
\* and part_002:59, 65-67
ENV_NAMES ==
    {"SUPABASE_URL", "SUPABASE_ANON_KEY", "SUPABASE_SERVICE_ROLE_KEY",
     "LOVABLE_API_KEY"}

\* fetch has not been called, or its promise is not settled
NoReply == [fetch |-> "none"]

\* factors.map((f) => f.type).join(", ") || "None", index.ts:292
RECURSIVE JoinTypes(_)
JoinTypes(factors) ==
    IF factors = <<>> THEN <<>>
    ELSE IF Len(factors) = 1 THEN <<factors[1].type>>
    ELSE <<factors[1].type, ", ">> \o JoinTypes(Tail(factors))

TriggeredRules(factors) ==
    IF JoinTypes(factors) = <<>> THEN <<"None">> ELSE JoinTypes(factors)

\* the callback of transactions.map, index.ts:282-294
Assessment(tx, allTransactions, groups) ==
    LET r == analyzeTransaction(tx, allTransactions, groups)
    IN  [transaction_id  |-> tx.id,
         risk_score      |-> r.score,
         risk_level      |-> r.level,
         risk_factors    |-> r.factors,
         risk_reason     |-> r.why,
         triggered_rules |-> TriggeredRules(r.factors)]

\* EvaluateBatch that answers for the flagged transactions only
EvaluateBatchFlaggedOnly(txs) ==
    LET groups == buildDuplicateGroups(txs)
    IN  SelectSeq([i \in 1..Len(txs) |-> Assessment(txs[i], txs, groups)],
                  LAMBDA a : a.risk_level # "low")

\* STEP 1 and STEP 2, index.ts:276-294
EvaluateBatch(txs) ==
    LET groups == buildDuplicateGroups(txs)
    IN  [i \in 1..Len(txs) |-> Assessment(txs[i], txs, groups)]

\* the filter that keeps every assessment
FlaggedTransactionsAll(as) == as

\* assessments.filter(a => a.risk_level !== "low"), index.ts:297
FlaggedTransactions(as) == SelectSeq(as, LAMBDA a : a.risk_level # "low")

\* index.ts:268-304: the body is read and validated, the batch is grouped and
\* evaluated, and a batch without flagged transactions is answered at once
AnalyzeBody ==
    /\ pc = "body"
    /\ target = ANALYZE
    /\ IF "LOVABLE_API_KEY" \notin env
       THEN /\ pc' = "done"
            /\ response' = AnalysisCatch(<<"Service configuration error">>)
            /\ UNCHANGED <<duplicateGroups, assessments>>
       ELSE IF ~req.body.json
       THEN /\ pc' = "done"
            /\ response' = AnalysisCatch(SyntaxErrorMessage(req.body.text))
            /\ UNCHANGED <<duplicateGroups, assessments>>
       ELSE IF req.body.transactions # "list" \/ Len(transactions) = 0
       THEN /\ pc' = "done"
            /\ response' = AnalysisCatch(<<"No transactions provided">>)
            /\ UNCHANGED <<duplicateGroups, assessments>>
       ELSE /\ duplicateGroups' = buildDuplicateGroups(transactions)
            /\ assessments' = EvaluateBatch(transactions)
            /\ IF FlaggedTransactions(assessments') = <<>>
               THEN /\ pc' = "done"
                    /\ response' = [status |-> 200, assessments |-> assessments']
               ELSE /\ pc' = "narrative"
                    /\ UNCHANGED response
    /\ UNCHANGED transactions
    /\ UNCHANGED limiterVars
    /\ UNCHANGED callVars
    /\ UNCHANGED storedVars
    /\ UNCHANGED sessionStats
    /\ UNCHANGED uploadVars

(***************************************************************************)
(* Narrative call of the analysis handler, index.ts:306-446.               *)
(* A text is a sequence of pieces: a json code fence, a plain code fence,  *)
(* a line break, prose, or the text of one JSON value.                     *)
(***************************************************************************)
\* the opening fence of a json code block (three backquotes and json)
FenceJson == [kind |-> "fence json"]

\* three backquotes
Fence == [kind |-> "fence"]

LineBreak == [kind |-> "\n"]

Prose == [kind |-> "prose"]

JsonText(value) == [kind |-> "json", value |-> value]

\* text.replace of a fence and the line break after it by the empty string,
\* index.ts:409
RECURSIVE ReplaceFence(_, _)
ReplaceFence(text, fence) ==
    IF text = <<>> THEN <<>>
    ELSE IF Head(text) = fence
         THEN IF Len(text) > 1 /\ text[2] = LineBreak
              THEN ReplaceFence(SubSeq(text, 3, Len(text)), fence)
              ELSE ReplaceFence(Tail(text), fence)
         ELSE <<Head(text)>> \o ReplaceFence(Tail(text), fence)

\* String.prototype.trim on pieces
RECURSIVE TrimPieces(_)
TrimPieces(text) ==
    IF text = <<>> THEN <<>>
    ELSE IF Head(text) = LineBreak THEN TrimPieces(Tail(text))
    ELSE IF text[Len(text)] = LineBreak THEN TrimPieces(SubSeq(text, 1, Len(text) - 1))
    ELSE text

\* cleanContent, index.ts:409
CleanContent(aiContent) ==
    TrimPieces(ReplaceFence(ReplaceFence(aiContent, FenceJson), Fence))

\* JSON.parse, index.ts:410: the value, or a SyntaxError
JSONparse(text) ==
    IF Len(text) = 1 /\ text[1].kind = "json"
    THEN [ok |-> TRUE, value |-> text[1].value]
    ELSE [ok |-> FALSE]

JsonNull == [type |-> "null"]

JsonObject == [type |-> "object"]

JsonArray(items) == [type |-> "array", items |-> items]

Undefined == [type |-> "undefined"]

StringOf(pieces) == [type |-> "string", pieces |-> pieces]

\* aiData.choices?.[0]?.message?.content, index.ts:404
ContentOf(aiData) ==
    IF aiData.choices = <<>> THEN Undefined ELSE aiData.choices[1].message.content

\* if (aiContent), index.ts:406
Truthy(value) ==
    /\ value.type \notin {"undefined", "null"}
    /\ ~(value.type = "string" /\ value.pieces = <<>>)

\* Object.assign that takes over every field of the explanation but its id
AssignAllFields(assessment, explanation) ==
    [f \in DOMAIN assessment \cup {"audit_observation", "suggested_action"} |->
        IF f \in {"audit_observation", "suggested_action", "risk_reason"}
        THEN explanation[f] ELSE assessment[f]]

\* Object.assign(assessment, {audit_observation, suggested_action}),
\* index.ts:416-419
AssignAdvisory(assessment, explanation) ==
    [f \in DOMAIN assessment \cup {"audit_observation", "suggested_action"} |->
        IF f \in {"audit_observation", "suggested_action"}
        THEN explanation[f] ELSE assessment[f]]

\* the body of the merge loop, index.ts:414-420: assessments.find takes the
\* first assessment with the id of the explanation
MergeOne(as, explanation) ==
    LET found == {i \in 1..Len(as) : as[i].transaction_id = explanation.transaction_id}
    IN  IF found = {} THEN as
        ELSE LET first == CHOOSE i \in found : \A j \in found : i <= j
             IN  [as EXCEPT ![first] = AssignAdvisory(@, explanation)]

\* the merge loop, index.ts:413-421; reading transaction_id of null is a
\* TypeError that ends the loop in the catch of 422
RECURSIVE MergeExplanations(_, _)
MergeExplanations(as, aiExplanations) ==
    IF aiExplanations = <<>> THEN as
    ELSE IF Head(aiExplanations) = JsonNull THEN as
    ELSE MergeExplanations(MergeOne(as, Head(aiExplanations)), Tail(aiExplanations))

\* the catch of the handler, index.ts:432-446
AssessmentsResponse(as) == [status |-> 200, assessments |-> as]

\* the handling that takes a 402 of the generator for any other failure
AnalysisResponseQuotaUnnamed(as, reply) ==
    IF reply.fetch = "rejected" THEN AnalysisCatch(<<"fetch failed">>)
    ELSE IF reply.status \notin 200..299
    THEN IF reply.status = 429
         THEN [status |-> 429,
               error |-> "Rate limit exceeded. Please try again in a moment.",
               assessments |-> as]
         ELSE AssessmentsResponse(as)
    ELSE AssessmentsResponse(as)

\* index.ts:373-430 and the catch: the Response for what await fetch gave
AnalysisResponse(as, reply) ==
    IF reply.fetch = "rejected" THEN AnalysisCatch(<<"fetch failed">>)
    ELSE IF reply.status \notin 200..299
    THEN IF reply.status = 429
         THEN [status |-> 429,
               error |-> "Rate limit exceeded. Please try again in a moment.",
               assessments |-> as]
         ELSE IF reply.status = 402
         THEN [status |-> 402,
               error |-> "AI credits exhausted. Please add credits to continue.",
               assessments |-> as]
         ELSE AssessmentsResponse(as)
    ELSE IF ~reply.body.json THEN AnalysisCatch(SyntaxErrorMessage(reply.body.text))
    ELSE IF reply.body.data = JsonNull THEN AnalysisCatch(<<"Cannot read properties of null">>)
    ELSE LET aiContent == ContentOf(reply.body.data)
         IN  IF ~Truthy(aiContent) THEN AssessmentsResponse(as)
             ELSE IF aiContent.type # "string" THEN AssessmentsResponse(as)
             ELSE LET parsed == JSONparse(CleanContent(aiContent.pieces))
                  IN  IF ~parsed.ok THEN AssessmentsResponse(as)
                      ELSE IF parsed.value.type # "array" THEN AssessmentsResponse(as)
                      ELSE AssessmentsResponse(MergeExplanations(as, parsed.value.items))

\* index.ts:306-371: the prompt is built and fetch is called; the handler is
\* suspended at the await
CallNarrative ==
    /\ pc = "narrative"
    /\ target = ANALYZE
    /\ aiCalls' = aiCalls + 1
    /\ pc' = "fetch"
    /\ UNCHANGED <<transactions, duplicateGroups, assessments, response, aiResponse>>
    /\ UNCHANGED limiterVars
    /\ UNCHANGED storedVars
    /\ UNCHANGED sessionStats
    /\ UNCHANGED uploadVars

(***************************************************************************)
(* Inputs of the rule evaluation                                           *)
(***************************************************************************)
MaxBatch == 3

TxIds == <<"tx-1", "tx-2", "tx-3", "tx-4", "tx-5", "tx-6", "tx-7", "tx-8">>

\* The batches are drawn from four families of transactions, each the
\* product of small field domains around one of the rules:
\*   grouping   empty, blank, padded and differently cased vendor names with
\*              amounts that differ below one cent and by one cent
\*   frequency  vendors and dates that agree or not, amounts that differ
\*   priority   the four boundary amounts of the high-value rule with and
\*              without a listed country
\*   country    the spellings of the listed countries, with and without a
\*              vendor name
INDIA == <<"I","n","d","i","a">>

UnitedArabEmirates ==
    <<"U","n","i","t","e","d"," ","a","r","a","b"," ","E","M","I","R","A","T","E","S">>

GroupingFamily ==
    [vendor_name      : { <<>>, <<" ">>, <<"a">>, <<" ", "A", " ">> },
     transaction_date : {"2026-01-05"},
     amount           : {499999000, 499999004, 499999010},
     vendor_country   : {INDIA}]

FrequencyFamily ==
    [vendor_name      : { <<" ">>, <<"a">>, <<"A", "\t">> },
     transaction_date : {"2026-01-05", "2026-01-06"},
     amount           : {120000, 499999000},
     vendor_country   : {INDIA}]

PriorityFamily ==
    [vendor_name      : { <<"a">> },
     transaction_date : {"2026-01-05"},
     amount           : {499999000, 500000000, 1000000000, 1000000010},
     vendor_country   : {INDIA, <<"u","a","e">>}]

CountryFamily ==
    [vendor_name      : { NullValue, <<"a">> },
     transaction_date : {"2026-01-05"},
     amount           : {499999000},
     vendor_country   : {INDIA, <<>>, <<"U","A","E">>, <<"p","A","n","a","m","A">>,
                         UnitedArabEmirates}]

TxFamilies == {GroupingFamily, FrequencyFamily, PriorityFamily, CountryFamily}

WithId(f, id) ==
    [id |-> id, vendor_name |-> f.vendor_name, transaction_date |-> f.transaction_date,
     amount |-> f.amount, vendor_country |-> f.vendor_country]

InitRules ==
    /\ \E family \in TxFamilies : \E n \in 0..MaxBatch : \E fs \in [1..n -> family] :
          transactions = [i \in 1..n |-> WithId(fs[i], TxIds[i])]
    /\ pc = "body"
    /\ duplicateGroups = <<>>
    /\ assessments = <<>>
    /\ response = NoResponse
    /\ now = 0
    /\ rateLimitStore = [fn \in Functions |-> <<>>]
    /\ target = ANALYZE
    /\ request = NoRequest
    /\ admitted = [fn \in Functions |-> [u \in Users |-> NoWindow]]
    /\ handlers = [h \in Handlers |-> Idle]
    /\ aiCalls = 0
    /\ aiResponse = NoReply
    /\ req = AcceptedRequest
    /\ audit_reports = <<>>
    /\ sessionStats = NoStats
    /\ UploadNotStarted
    /\ env = ENV_NAMES

NextRules == AnalyzeBody

SpecRules == InitRules /\ [][NextRules]_vars

(***************************************************************************)
(* What the narrative generator gives an analysis request                  *)
(***************************************************************************)
MaxEntries == 2

UNKNOWN_ID == "tx-unknown"

\* an entry of the array the prompt asks for, index.ts:335-343
Explanation(id) ==
    [transaction_id |-> id,
     audit_observation |-> "observation of the narrative generator",
     risk_reason |-> Template("reason of the narrative generator", <<>>),
     suggested_action |-> "action of the narrative generator"]

\* the entries a parsed array may hold: for an id of the batch, for an id
\* that is not of the batch, and null
EntriesFor(txs) ==
    {Explanation(txs[i].id) : i \in 1..Len(txs)} \cup {Explanation(UNKNOWN_ID), JsonNull}

ArraysFor(txs) ==
    UNION {[1..n -> EntriesFor(txs)] : n \in 0..MaxEntries}

\* message.content of the first choice
ContentsFor(txs) ==
    {Undefined, JsonObject, StringOf(<<>>), StringOf(<<Prose>>),
     StringOf(<<JsonText(JsonObject)>>),
     StringOf(<<Prose, LineBreak, JsonText(JsonArray(<<>>))>>)}
    \cup {StringOf(<<JsonText(JsonArray(a))>>) : a \in ArraysFor(txs)}
    \cup {StringOf(<<FenceJson, LineBreak, JsonText(JsonArray(a)), LineBreak, Fence>>) :
             a \in ArraysFor(txs)}

\* the body of a Response of the generator
BodiesFor(txs) ==
    {[json |-> FALSE, text |-> t] : t \in BodyTexts(ANALYZE)}
    \cup {[json |-> TRUE, data |-> JsonNull],
          [json |-> TRUE, data |-> [choices |-> <<>>]]}
    \cup {[json |-> TRUE, data |-> [choices |-> <<[message |-> [content |-> c]]>>]] :
             c \in ContentsFor(txs)}

\* what await fetch gives: the promise is rejected, or it resolves with a
\* Response that is not ok, or with one that is ok
RepliesFor(txs) ==
    {[fetch |-> "rejected"]}
    \cup {[fetch |-> "resolved", status |-> st, body |-> [json |-> FALSE, text |-> HTML_TEXT]] :
             st \in {429, 402, 500}}
    \cup {[fetch |-> "resolved", status |-> 200, body |-> b] : b \in BodiesFor(txs)}

\* the handler that calls the generator again when fetch was rejected
NarrativeAnswersRetrying ==
    /\ pc = "fetch"
    /\ target = ANALYZE
    /\ \E reply \in RepliesFor(transactions) :
          /\ aiResponse' = reply
          /\ IF reply.fetch = "rejected"
             THEN pc' = "narrative" /\ UNCHANGED <<response, assessments>>
             ELSE /\ response' = AnalysisResponse(assessments, reply)
                  /\ assessments' = IF "assessments" \in DOMAIN response'
                                    THEN response'.assessments ELSE assessments
                  /\ pc' = "done"
    /\ UNCHANGED <<transactions, duplicateGroups, aiCalls>>
    /\ UNCHANGED limiterVars
    /\ UNCHANGED storedVars
    /\ UNCHANGED sessionStats
    /\ UNCHANGED uploadVars

\* index.ts:345-446: the await of fetch is settled and the handler runs to
\* its Response
NarrativeAnswers ==
    /\ pc = "fetch"
    /\ target = ANALYZE
    /\ \E reply \in RepliesFor(transactions) :
          /\ aiResponse' = reply
          /\ response' = AnalysisResponse(assessments, reply)
          /\ assessments' = IF "assessments" \in DOMAIN response'
                            THEN response'.assessments ELSE assessments
    /\ pc' = "done"
    /\ UNCHANGED <<transactions, duplicateGroups, aiCalls>>
    /\ UNCHANGED limiterVars
    /\ UNCHANGED storedVars
    /\ UNCHANGED sessionStats
    /\ UNCHANGED uploadVars

VENDOR_A == <<"a">>

VENDOR_B == <<"b">>

\* a small amount, and one above the high-value threshold
NarrativeFamily ==
    [vendor_name : {VENDOR_A, VENDOR_B}, transaction_date : {"2026-01-05"},
     amount : {120000, 1000000010}, vendor_country : {INDIA}]

\* an analysis request that got past the rate limiter
InitAnalysis ==
    /\ \E n \in 0..MaxBatch : \E fs \in [1..n -> NarrativeFamily] :
          transactions = [i \in 1..n |-> WithId(fs[i], TxIds[i])]
    /\ pc = "body"
    /\ duplicateGroups = <<>>
    /\ assessments = <<>>
    /\ response = NoResponse
    /\ now = 0
    /\ rateLimitStore = [fn \in Functions |-> <<>>]
    /\ target = ANALYZE
    /\ request = NoRequest
    /\ admitted = [fn \in Functions |-> [u \in Users |-> NoWindow]]
    /\ handlers = [h \in Handlers |-> Idle]
    /\ aiCalls = 0
    /\ aiResponse = NoReply
    /\ req = AcceptedRequest
    /\ audit_reports = <<>>
    /\ sessionStats = NoStats
    /\ UploadNotStarted
    /\ env = ENV_NAMES

NextAnalysis ==
    \/ AnalyzeBody
    \/ CallNarrative
    \/ NarrativeAnswers

SpecAnalysis == InitAnalysis /\ [][NextAnalysis]_vars

(***************************************************************************)
(* Requests at the rate limiter                                            *)
(***************************************************************************)
MaxWindows == 1

\* the instants Date.now() is read at: the start of a window length, one
\* millisecond later, one second and one millisecond before its end
ClockOffsets(fn) == {0, 1, WindowMs(fn) - 1000, WindowMs(fn) - 1}

Instants(fn) == {k * WindowMs(fn) + d : k \in 0..MaxWindows, d \in ClockOffsets(fn)}

\* the requests not answered 429 in the fixed window that holds the instant at
Counted(window, fn, at, allowed) ==
    IF ~allowed THEN window
    ELSE IF window.count = 0 \/ at >= window.since + WindowMs(fn)
         THEN [since |-> at, count |-> 1]
         ELSE [window EXCEPT !.count = @ + 1]

\* index.ts:240-260, part_002:91-111: the handler of a request of userId has
\* the caller's claims, checks the rate limit and answers 429 or goes on
AdmitStep(fn, userId) ==
    LET r == checkRateLimit(rateLimitStore[fn], userId, now,
                            WindowMs(fn), MaxPerWindow(fn))
    IN  /\ target = fn
        /\ rateLimitStore' = [rateLimitStore EXCEPT ![fn] = r.store]
        /\ request' = [fn |-> fn, userId |-> userId,
                       userLimit |-> MapGet(rateLimitStore[fn], userId)]
        /\ IF r.allowed
           THEN response' = NoResponse /\ pc' = "body"
           ELSE response' = RateLimitResponse(r.retryAfter) /\ pc' = "done"
        /\ admitted' = [admitted EXCEPT ![fn][userId] =
                            Counted(@, fn, now, response'.status # 429)]
        /\ UNCHANGED <<now, target, transactions, duplicateGroups, assessments>>
        /\ UNCHANGED callVars
        /\ UNCHANGED storedVars
        /\ UNCHANGED sessionStats
        /\ UNCHANGED uploadVars

\* the requests come one after the other
Admit(fn, userId) == AdmitStep(fn, userId) /\ UNCHANGED handlers

\* time passes
Tick ==
    /\ \E t \in Instants(target) : t > now /\ now' = t
    /\ UNCHANGED <<rateLimitStore, target, request, admitted, handlers,
                   transactions, pc, duplicateGroups, assessments, response>>
    /\ UNCHANGED callVars
    /\ UNCHANGED storedVars
    /\ UNCHANGED sessionStats
    /\ UNCHANGED uploadVars

\* cold start of the function: the module is loaded anew and its Map is
\* empty (index.ts:13-14, part_002:12-13); the windows of the old process
\* end with it
ColdStart ==
    /\ DOMAIN rateLimitStore[target] # {}
    /\ rateLimitStore' = [rateLimitStore EXCEPT ![target] = <<>>]
    /\ admitted' = [admitted EXCEPT ![target] = [u \in Users |-> NoWindow]]
    /\ UNCHANGED <<now, target, request, handlers,
                   transactions, pc, duplicateGroups, assessments, response>>
    /\ UNCHANGED callVars
    /\ UNCHANGED storedVars
    /\ UNCHANGED sessionStats
    /\ UNCHANGED uploadVars

InitLimiter ==
    /\ transactions = <<>>
    /\ pc = "claims"
    /\ duplicateGroups = <<>>
    /\ assessments = <<>>
    /\ response = NoResponse
    /\ now = 0
    /\ rateLimitStore = [fn \in Functions |-> <<>>]
    /\ target \in Functions
    /\ request = NoRequest
    /\ admitted = [fn \in Functions |-> [u \in Users |-> NoWindow]]
    /\ handlers = [h \in Handlers |-> Idle]
    /\ aiCalls = 0
    /\ aiResponse = NoReply
    /\ req = AcceptedRequest
    /\ audit_reports = <<>>
    /\ sessionStats = NoStats
    /\ UploadNotStarted
    /\ env = ENV_NAMES

NextLimiter ==
    \/ \E fn \in Functions, userId \in Users : Admit(fn, userId)
    \/ Tick
    \/ ColdStart

SpecLimiter == InitLimiter /\ [][NextLimiter]_vars

(***************************************************************************)
(* Request handlers that run at the same time in one process.  A handler   *)
(* runs without interruption from one await to the next (the event loop    *)
(* runs one continuation at a time), and the handlers interleave at their  *)
(* awaits.                                                                 *)
(***************************************************************************)
\* index.ts:203-231, part_002:44-82: the request has a Bearer header and the
\* handler is suspended at await getClaims
Receive(h, userId) ==
    /\ handlers[h] = Idle
    /\ handlers' = [handlers EXCEPT ![h] = [pc |-> "claims", userId |-> userId]]
    /\ UNCHANGED <<transactions, pc, duplicateGroups, assessments, response,
                   now, rateLimitStore, target, request, admitted>>
    /\ UNCHANGED callVars
    /\ UNCHANGED storedVars
    /\ UNCHANGED sessionStats
    /\ UNCHANGED uploadVars

\* index.ts:233-268, part_002:84-116: getClaims has resolved with the caller's
\* claims; the handler checks the rate limit and returns 429, or goes on and
\* is suspended at await req.json()
CheckLimit(h) ==
    /\ handlers[h].pc = "claims"
    /\ AdmitStep(target, handlers[h].userId)
    /\ handlers' = [handlers EXCEPT ![h] =
                        IF response'.status = 429 THEN Idle
                        ELSE [@ EXCEPT !.pc = "body"]]

\* the rest of the handler, from await req.json() to its Response; it does
\* not touch the Map
Finish(h) ==
    /\ handlers[h].pc = "body"
    /\ handlers' = [handlers EXCEPT ![h] = Idle]
    /\ UNCHANGED <<transactions, pc, duplicateGroups, assessments, response,
                   now, rateLimitStore, target, request, admitted>>
    /\ UNCHANGED callVars
    /\ UNCHANGED storedVars
    /\ UNCHANGED sessionStats
    /\ UNCHANGED uploadVars

\* a whole window length passes
WindowPasses ==
    /\ now < MaxWindows * WindowMs(target)
    /\ now' = now + WindowMs(target)
    /\ UNCHANGED <<transactions, pc, duplicateGroups, assessments, response,
                   rateLimitStore, target, request, admitted, handlers>>
    /\ UNCHANGED callVars
    /\ UNCHANGED storedVars
    /\ UNCHANGED sessionStats
    /\ UNCHANGED uploadVars

NextConcurrent ==
    \/ \E h \in Handlers, userId \in Users : Receive(h, userId)
    \/ \E h \in Handlers : CheckLimit(h)
    \/ \E h \in Handlers : Finish(h)
    \/ WindowPasses

SpecConcurrent == InitLimiter /\ [][NextConcurrent]_vars

(***************************************************************************)
(* Callers that use both functions                                         *)
(***************************************************************************)
\* the next requests go to the other function
Retarget ==
    /\ target' \in Functions \ {target}
    /\ UNCHANGED <<transactions, pc, duplicateGroups, assessments, response,
                   now, rateLimitStore, request, admitted, handlers>>
    /\ UNCHANGED callVars
    /\ UNCHANGED storedVars
    /\ UNCHANGED sessionStats
    /\ UNCHANGED uploadVars

NextBothFunctions ==
    \/ \E fn \in Functions, userId \in Users : Admit(fn, userId)
    \/ Retarget

SpecBothFunctions == InitLimiter /\ [][NextBothFunctions]_vars

(***************************************************************************)
(* One invocation of a function from its request to its Response,          *)
(* index.ts:203-447 and part_002:44-393                                    *)
(***************************************************************************)
Unauthorized(error) == [status |-> 401, error |-> error]

\* the catch of the handler of fn
Catch(fn, message) ==
    IF fn = ANALYZE THEN AnalysisCatch(message) ELSE ReportCatch(message)

\* the names a handler needs before it awaits getClaims: index.ts:218-224,
\* part_002:59-72
Configuration(fn) ==
    IF fn = ANALYZE THEN {"SUPABASE_URL", "SUPABASE_ANON_KEY"} ELSE ENV_NAMES

\* index.ts:210-231, part_002:51-82: the Authorization header is looked at,
\* the configuration is read and the handler awaits getClaims
Authenticate ==
    /\ pc = "start"
    /\ IF req.authorization \notin {"Bearer valid", "Bearer invalid"}
       THEN /\ response' = Unauthorized("Unauthorized: Missing or invalid authorization header")
            /\ pc' = "done"
       ELSE IF ~(Configuration(target) \subseteq env)
       THEN /\ response' = Catch(target, <<"Service configuration error">>)
            /\ pc' = "done"
       ELSE /\ pc' = "claims"
            /\ UNCHANGED response
    /\ UNCHANGED <<transactions, duplicateGroups, assessments>>
    /\ UNCHANGED limiterVars
    /\ UNCHANGED callVars
    /\ UNCHANGED storedVars
    /\ UNCHANGED sessionStats
    /\ UNCHANGED uploadVars

\* a handler that counts the request before it looks at the claims
AuthorizeCountingFirst ==
    /\ pc = "claims"
    /\ IF req.authorization # "Bearer valid"
       THEN /\ response' = Unauthorized("Unauthorized: Invalid token")
            /\ pc' = "done"
            /\ rateLimitStore' =
                  [rateLimitStore EXCEPT ![target] =
                      checkRateLimit(@, req.sub, now, WindowMs(target),
                                     MaxPerWindow(target)).store]
            /\ UNCHANGED <<transactions, duplicateGroups, assessments>>
            /\ UNCHANGED <<now, target, request, admitted, handlers>>
            /\ UNCHANGED callVars
            /\ UNCHANGED storedVars
            /\ UNCHANGED sessionStats
            /\ UNCHANGED uploadVars
       ELSE Admit(target, req.sub)

\* index.ts:233-268, part_002:84-116: getClaims has answered; without claims
\* the handler returns 401, with claims it checks the rate limit of the
\* subject and returns 429 or awaits the body
Authorize ==
    /\ pc = "claims"
    /\ IF req.authorization # "Bearer valid"
       THEN /\ response' = Unauthorized("Unauthorized: Invalid token")
            /\ pc' = "done"
            /\ UNCHANGED <<transactions, duplicateGroups, assessments>>
            /\ UNCHANGED limiterVars
            /\ UNCHANGED callVars
            /\ UNCHANGED storedVars
            /\ UNCHANGED sessionStats
            /\ UNCHANGED uploadVars
       ELSE Admit(target, req.sub)

\* the rows of public.analysis_sessions
analysis_sessions ==
    {[id |-> "session-1", user_id |-> "user-1"],
     [id |-> "session-2", user_id |-> "user-2"]}

NO_SESSION_ID == ""

SessionIds == {NO_SESSION_ID, "session-1", "session-2", "session-unknown"}

\* the select of the session by its id alone
SelectSessionAnyOwner(sessionId, userId) ==
    {row \in analysis_sessions : row.id = sessionId}

\* the select of part_002:123-128 with eq id, eq user_id and single()
SelectSession(sessionId, userId) ==
    {row \in analysis_sessions : row.id = sessionId /\ row.user_id = userId}

\* ---- Statistics of a session, part_002:159-225 ----
\* A row of public.transactions holds its amount as an integer number of
\* thousandths of a unit, so the sums of amounts are exact.  riskScore, the
\* quotient totalScore / count, is held as the pair of its operands:
\* quotients of integers this small are equal as numbers exactly when they
\* are equal as fractions.

UNIDENTIFIED == <<"U","n","i","d","e","n","t","i","f","i","e","d">>

UNKNOWN_DEPARTMENT == "Unknown"

TOP_VENDORS == 5

\* t.vendor_name?.trim() || "Unidentified", part_002:171
VendorKey(t) ==
    IF t.vendor_name = NullValue \/ trim(t.vendor_name) = <<>>
    THEN UNIDENTIFIED ELSE trim(t.vendor_name)

\* t.amount || 0, part_002:175, for an amount that is a number (the column
\* is NOT NULL)
AmountOrZero(t) == IF t.amount = 0 THEN 0 ELSE t.amount

\* one iteration of the forEach of part_002:170-177
AddToVendorMap(vendorMap, t) ==
    LET vendor == VendorKey(t)
        at     == MapIndex(vendorMap, vendor)
    IN  IF at = 0
        THEN Append(vendorMap, [key |-> vendor, count |-> 1,
                                totalAmount |-> AmountOrZero(t)])
        ELSE [vendorMap EXCEPT ![at].count = @ + 1,
                               ![at].totalAmount = @ + AmountOrZero(t)]

RECURSIVE vendorMapFrom(_, _)
vendorMapFrom(vendorMap, txs) ==
    IF txs = <<>> THEN vendorMap
    ELSE vendorMapFrom(AddToVendorMap(vendorMap, Head(txs)), Tail(txs))

\* Array.prototype.sort with a comparator by which items[i] goes before
\* items[j] when before[i][j]: the sort is stable, items neither of which
\* goes before the other keep their order
SortStable(items, before) ==
    LET n == Len(items)
        Rank(i) == 1 + Cardinality({j \in 1..n :
                          \/ before[j][i]
                          \/ (~before[i][j] /\ j < i)})
    IN  [k \in 1..n |-> items[CHOOSE i \in 1..n : Rank(i) = k]]

\* Array.prototype.slice(0, end)
SliceTo(items, end) == SubSeq(items, 1, IF Len(items) < end THEN Len(items) ELSE end)

\* (a, b) => b.totalAmount - a.totalAmount is negative, part_002:180
LargerTotal(a, b) == b.totalAmount - a.totalAmount < 0

\* the slice without the sort: the first five vendors of the Map
topVendorsUnsorted(txs) ==
    LET entries == vendorMapFrom(<<>>, txs)
        named   == [i \in 1..Len(entries) |->
                       [name |-> entries[i].key, count |-> entries[i].count,
                        totalAmount |-> entries[i].totalAmount]]
    IN  SliceTo(named, TOP_VENDORS)

\* part_002:169-181
topVendors(txs) ==
    LET entries == vendorMapFrom(<<>>, txs)
        named   == [i \in 1..Len(entries) |->
                       [name |-> entries[i].key, count |-> entries[i].count,
                        totalAmount |-> entries[i].totalAmount]]
        before  == [i \in 1..Len(named) |-> [j \in 1..Len(named) |->
                       LargerTotal(named[i], named[j])]]
    IN  SliceTo(SortStable(named, before), TOP_VENDORS)

\* raByTxId.get(id), part_002:159-160, 201: the last of the selected risk
\* assessments of the transaction, or Undefined
raByTxId(ras, id) ==
    IF \E i \in 1..Len(ras) : ras[i].transaction_id = id
    THEN ras[CHOOSE i \in 1..Len(ras) :
                /\ ras[i].transaction_id = id
                /\ \A j \in (i + 1)..Len(ras) : ras[j].transaction_id # id]
    ELSE Undefined

\* ra?.risk_score ?? 0, part_002:202
ScoreOrZero(ra) == IF ra = Undefined THEN 0 ELSE ra.risk_score

\* t.department || "Unknown", part_002:200, for a department that is a
\* string (the column is NOT NULL)
DepartmentKey(t) ==
    IF t.department = "" THEN UNKNOWN_DEPARTMENT ELSE t.department

\* the reading that leaves the transactions without an assessment out of
\* the count of their department
AddToDeptMapAssessedOnly(deptMap, t, ras) ==
    LET dept  == DepartmentKey(t)
        ra    == raByTxId(ras, t.id)
        score == ScoreOrZero(ra)
        at    == MapIndex(deptMap, dept)
    IN  IF at = 0
        THEN Append(deptMap, [key |-> dept, count |-> 1, totalScore |-> score])
        ELSE IF ra = Undefined THEN deptMap
        ELSE [deptMap EXCEPT ![at].count = @ + 1, ![at].totalScore = @ + score]

\* one iteration of the forEach of part_002:199-208
AddToDeptMap(deptMap, t, ras) ==
    LET dept  == DepartmentKey(t)
        ra    == raByTxId(ras, t.id)
        score == ScoreOrZero(ra)
        at    == MapIndex(deptMap, dept)
    IN  IF at = 0
        THEN Append(deptMap, [key |-> dept, count |-> 1, totalScore |-> score])
        ELSE [deptMap EXCEPT ![at].count = @ + 1, ![at].totalScore = @ + score]

RECURSIVE deptMapFrom(_, _, _)
deptMapFrom(deptMap, txs, ras) ==
    IF txs = <<>> THEN deptMap
    ELSE deptMapFrom(AddToDeptMap(deptMap, Head(txs), ras), Tail(txs), ras)

\* the quotient totalScore / count of part_002:213
Quotient(totalScore, count) == [dividend |-> totalScore, divisor |-> count]

\* x / y < u / v for divisors above 0
LessQuotient(a, b) == a.dividend * b.divisor < b.dividend * a.divisor

\* (a, b) => b.riskScore - a.riskScore is negative, part_002:215
HigherRisk(a, b) == LessQuotient(b.riskScore, a.riskScore)

\* part_002:198-215
departmentBreakdown(txs, ras) ==
    LET entries == deptMapFrom(<<>>, txs, ras)
        named   == [i \in 1..Len(entries) |->
                       [department |-> entries[i].key, count |-> entries[i].count,
                        riskScore |-> Quotient(entries[i].totalScore,
                                               entries[i].count)]]
        before  == [i \in 1..Len(named) |-> [j \in 1..Len(named) |->
                       HigherRisk(named[i], named[j])]]
    IN  SortStable(named, before)

\* filter((ra) => ra.risk_level === level).length, part_002:164-166
CountLevel(ras, level) ==
    Cardinality({i \in 1..Len(ras) : ras[i].risk_level = level})

\* part_002:163-225, for the rows the selects of part_002:134-151 gave for
\* the session
SessionStats(sessionId, txs, ras) ==
    [session_id |-> sessionId,
     totalTransactions |-> Len(txs),
     highRiskCount |-> CountLevel(ras, "high"),
     mediumRiskCount |-> CountLevel(ras, "medium"),
     lowRiskCount |-> CountLevel(ras, "low"),
     topVendors |-> topVendors(txs),
     departmentBreakdown |-> departmentBreakdown(txs, ras)]

\* what the selects of the transactions and of the risk assessments give
DatabaseAnswers == {"rows", "txError", "raError"}

\* select * from transactions where session_id = sessionId, part_002:134-137
SelectTransactions(rows, sessionId) ==
    LET OfSession(t) == t.session_id = sessionId
    IN  SelectSeq(rows, OfSession)

\* the select of the risk assessments with transaction_id in txIds,
\* part_002:147-151
SelectRiskAssessments(rows, txs) ==
    LET txIds == {txs[i].id : i \in 1..Len(txs)}
        Listed(ra) == ra.transaction_id \in txIds
    IN  SelectSeq(rows, Listed)

\* part_002:116-309: the body is read, the session and its rows are
\* selected, the statistics and the prompt are built and fetch is called
ReportBody ==
    /\ pc = "body"
    /\ target = REPORT
    /\ \E db \in DatabaseAnswers :
          IF ~req.body.json
          THEN /\ response' = ReportCatch(SyntaxErrorMessage(req.body.text))
               /\ pc' = "done"
               /\ UNCHANGED <<aiCalls, sessionStats>>
          ELSE IF req.sessionId = NO_SESSION_ID
          THEN /\ response' = ReportCatch(<<"Session ID is required">>)
               /\ pc' = "done"
               /\ UNCHANGED <<aiCalls, sessionStats>>
          ELSE IF SelectSession(req.sessionId, req.sub) = {}
          THEN /\ response' = ReportCatch(<<"Session not found or access denied">>)
               /\ pc' = "done"
               /\ UNCHANGED <<aiCalls, sessionStats>>
          ELSE IF db = "txError"
          THEN /\ response' = ReportCatch(<<"Failed to fetch transactions">>)
               /\ pc' = "done"
               /\ UNCHANGED <<aiCalls, sessionStats>>
          ELSE IF db = "raError"
          THEN /\ response' = ReportCatch(<<"Failed to fetch risk assessments">>)
               /\ pc' = "done"
               /\ UNCHANGED <<aiCalls, sessionStats>>
          ELSE LET txs == SelectTransactions(transactions, req.sessionId)
                   ras == SelectRiskAssessments(assessments, txs)
               IN  /\ sessionStats' = SessionStats(req.sessionId, txs, ras)
                   /\ aiCalls' = aiCalls + 1
                   /\ pc' = "fetch"
                   /\ UNCHANGED response
    /\ UNCHANGED <<transactions, duplicateGroups, assessments, aiResponse>>
    /\ UNCHANGED limiterVars
    /\ UNCHANGED storedVars
    /\ UNCHANGED uploadVars

\* the JSON object the prompt asks for, part_002:274-280
REPORT_OBJECT ==
    [type |-> "object", executive_summary |-> "summary",
     risk_posture |-> "Needs Improvement",
     key_risk_themes |-> <<>>, areas_of_attention |-> <<>>]

\* message.content of the first choice of the generator
ReportContents ==
    {Undefined, JsonObject, StringOf(<<>>), StringOf(<<Prose>>),
     StringOf(<<JsonText(JsonNull)>>),
     StringOf(<<JsonText(REPORT_OBJECT)>>),
     StringOf(<<FenceJson, LineBreak, JsonText(REPORT_OBJECT), LineBreak, Fence>>)}

ReportReplies ==
    {[fetch |-> "rejected"]}
    \cup {[fetch |-> "resolved", status |-> st, body |-> [json |-> FALSE, text |-> HTML_TEXT]] :
             st \in {429, 402, 500}}
    \cup {[fetch |-> "resolved", status |-> 200, body |-> b] :
             b \in {[json |-> FALSE, text |-> t] : t \in BodyTexts(REPORT)}
                   \cup {[json |-> TRUE, data |-> JsonNull],
                    [json |-> TRUE, data |-> [choices |-> <<>>]]}}
    \cup {[fetch |-> "resolved", status |-> 200,
           body |-> [json |-> TRUE, data |-> [choices |-> <<[message |-> [content |-> c]]>>]]] :
             c \in ReportContents}

\* part_002:311-344: the parsed report, or the Response of the failure
ReportOf(reply) ==
    IF reply.fetch = "rejected" THEN [ok |-> FALSE, response |-> ReportCatch(<<"fetch failed">>)]
    ELSE IF reply.status \notin 200..299
    THEN IF reply.status = 429
         THEN [ok |-> FALSE,
               response |-> [status |-> 429,
                             error |-> "Rate limit exceeded. Please try again in a moment."]]
         ELSE IF reply.status = 402
         THEN [ok |-> FALSE,
               response |-> [status |-> 402,
                             error |-> "AI credits exhausted. Please add credits to continue."]]
         ELSE [ok |-> FALSE, response |-> ReportCatch(<<"Failed to generate report">>)]
    ELSE IF ~reply.body.json
    THEN [ok |-> FALSE, response |-> ReportCatch(SyntaxErrorMessage(reply.body.text))]
    ELSE IF reply.body.data = JsonNull
    THEN [ok |-> FALSE, response |-> ReportCatch(<<"Cannot read properties of null">>)]
    ELSE LET content == ContentOf(reply.body.data)
         IN  IF ~Truthy(content)
             THEN [ok |-> FALSE, response |-> ReportCatch(<<"No content in AI response">>)]
             ELSE IF content.type # "string"
             THEN [ok |-> FALSE, response |-> ReportCatch(<<"content.replace is not a function">>)]
             ELSE LET parsed == JSONparse(CleanContent(content.pieces))
                  IN  IF ~parsed.ok
                      THEN [ok |-> FALSE,
                            response |-> ReportCatch(SyntaxErrorMessage(PROSE_TEXT))]
                      ELSE IF parsed.value = JsonNull
                      THEN [ok |-> FALSE,
                            response |-> ReportCatch(<<"Cannot read properties of null">>)]
                      ELSE [ok |-> TRUE, report |-> parsed.value]

\* session, the row that single() gave at part_002:123-128
SingleSession(r) == CHOOSE row \in SelectSession(r.sessionId, r.sub) : TRUE

\* an insert that replaces the reports the session already has
InsertReportUpsert(rows, row) ==
    LET OfOtherSession(old) == old.session_id # row.session_id
    IN  Append(SelectSeq(rows, OfOtherSession), row)

\* from("audit_reports").insert(...), part_002:350-367
InsertReport(rows, row) == Append(rows, row)

\* the row of part_002:352-367
ReportRow(sessionId, userId, report) ==
    [session_id |-> sessionId, user_id |-> userId,
     executive_summary |-> report.executive_summary,
     risk_posture |-> report.risk_posture]

\* part_002:311-392: the await of fetch is settled; a parsed report is
\* inserted and returned, anything else ends in a Response of its own or in
\* the catch
ReportNarrativeAnswers ==
    /\ pc = "fetch"
    /\ target = REPORT
    /\ \E reply \in ReportReplies, insertError \in BOOLEAN :
          LET r == ReportOf(reply)
          IN  /\ aiResponse' = reply
              /\ IF ~r.ok
                 THEN response' = r.response /\ UNCHANGED audit_reports
                 ELSE IF insertError
                 THEN /\ response' = ReportCatch(<<"Failed to save report">>)
                      /\ UNCHANGED audit_reports
                 ELSE /\ audit_reports' =
                            InsertReport(audit_reports,
                                         ReportRow(req.sessionId,
                                                   SingleSession(req).user_id,
                                                   r.report))
                      /\ response' = [status |-> 200, report |-> r.report,
                                      success |-> TRUE]
    /\ pc' = "done"
    /\ UNCHANGED <<transactions, duplicateGroups, assessments, aiCalls, req, env>>
    /\ UNCHANGED sessionStats
    /\ UNCHANGED uploadVars
    /\ UNCHANGED limiterVars

\* the bodies of the requests: a text that is not JSON, or a JSON object
\* whose transactions are missing, not an array, or an array
Bodies(fn) ==
    {[json |-> FALSE, text |-> t] : t \in BodyTexts(fn)}
    \cup {[json |-> TRUE, transactions |-> k] :
             k \in IF fn = ANALYZE THEN {"missing", "not a list", "list"}
                   ELSE {"missing"}}

HttpRequests(fn) ==
    [authorization : {"missing", "Basic", "Bearer invalid", "Bearer valid"},
     sub : Users,
     sessionId : IF fn = REPORT THEN SessionIds ELSE {"session-1"},
     body : Bodies(fn)]

\* Deno.env with all the names set, or with one of them missing
Environments ==
    {ENV_NAMES, ENV_NAMES \ {"LOVABLE_API_KEY"}, ENV_NAMES \ {"SUPABASE_URL"}}

\* rows of public.transactions and public.risk_assessments of the two
\* sessions
StoredTransactions ==
    <<[id |-> "tx-1", session_id |-> "session-1", vendor_name |-> VENDOR_A,
       amount |-> 120000, department |-> "Finance"],
      [id |-> "tx-2", session_id |-> "session-2", vendor_name |-> VENDOR_B,
       amount |-> 1000000010, department |-> ""]>>

StoredAssessments ==
    <<[transaction_id |-> "tx-1", risk_level |-> "low", risk_score |-> 10],
      [transaction_id |-> "tx-2", risk_level |-> "high", risk_score |-> 75]>>

\* the entry of a caller who has used up the ceiling of fn in a window that
\* started at 0
UsedUp(fn) == [count |-> MaxPerWindow(fn), resetTime |-> WindowMs(fn)]

\* the entry of a caller who has one request left in a window that started
\* at 0
OneLeft(fn) == [count |-> MaxPerWindow(fn) - 1, resetTime |-> WindowMs(fn)]

\* a request arrives at a function whose Map is empty or holds the entry of
\* user-1, with one request left or used up
InitInvocation ==
    /\ target \in Functions
    /\ req \in HttpRequests(target)
    /\ env \in Environments
    /\ IF target = REPORT
       THEN transactions = StoredTransactions /\ assessments = StoredAssessments
       ELSE /\ assessments = <<>>
            /\ IF req.body = AcceptedRequest.body
               THEN \E n \in 0..MaxBatch : \E fs \in [1..n -> NarrativeFamily] :
                       transactions = [i \in 1..n |-> WithId(fs[i], TxIds[i])]
               ELSE transactions = <<>>
    /\ \E entry \in {NoEntry, OneLeft(target), UsedUp(target)} :
          /\ rateLimitStore =
                [fn \in Functions |->
                    IF entry # NoEntry /\ fn = target
                    THEN [u \in {"user-1"} |-> entry] ELSE <<>>]
          /\ admitted =
                [fn \in Functions |-> [u \in Users |->
                    IF entry # NoEntry /\ fn = target /\ u = "user-1"
                    THEN [since |-> 0, count |-> entry.count] ELSE NoWindow]]
    /\ pc = "start"
    /\ duplicateGroups = <<>>
    /\ response = NoResponse
    /\ now = 0
    /\ request = NoRequest
    /\ handlers = [h \in Handlers |-> Idle]
    /\ aiCalls = 0
    /\ aiResponse = NoReply
    /\ audit_reports = <<>>
    /\ sessionStats = NoStats
    /\ UploadNotStarted

NextInvocation ==
    \/ Authenticate
    \/ Authorize
    \/ AnalyzeBody
    \/ CallNarrative
    \/ NarrativeAnswers
    \/ ReportBody
    \/ ReportNarrativeAnswers

SpecInvocation == InitInvocation /\ [][NextInvocation]_vars

MaxPending == 1

\* a request with accepted credentials and a JSON body arrives at a function
\* that is configured and whose Map is empty
InitUnanswered ==
    /\ target \in Functions
    /\ \E r \in HttpRequests(target) :
          /\ r.authorization = "Bearer valid"
          /\ r.body.json
          /\ target = ANALYZE => r.body = AcceptedRequest.body
          /\ req = r
    /\ env = ENV_NAMES
    /\ IF target = REPORT
       THEN transactions = StoredTransactions /\ assessments = StoredAssessments
       ELSE /\ assessments = <<>>
            /\ \E n \in 0..MaxPending : \E fs \in [1..n -> NarrativeFamily] :
                  transactions = [i \in 1..n |-> WithId(fs[i], TxIds[i])]
    /\ rateLimitStore = [fn \in Functions |-> <<>>]
    /\ admitted = [fn \in Functions |-> [u \in Users |-> NoWindow]]
    /\ pc = "start"
    /\ duplicateGroups = <<>>
    /\ response = NoResponse
    /\ now = 0
    /\ request = NoRequest
    /\ handlers = [h \in Handlers |-> Idle]
    /\ aiCalls = 0
    /\ aiResponse = NoReply
    /\ audit_reports = <<>>
    /\ sessionStats = NoStats
    /\ UploadNotStarted

\* the steps the handler takes by itself
HandlerStep ==
    \/ Authenticate
    \/ Authorize
    \/ AnalyzeBody
    \/ CallNarrative
    \/ ReportBody

\* The runtime runs every continuation of the handler that is ready: the
\* steps of the handler itself are taken when they can be.  The await of
\* fetch (index.ts:345, part_002:282) is given no signal and no timeout, so
\* it is settled only when the narrative generator answers or the
\* connection fails, which nothing obliges to happen.
SpecUnanswered ==
    /\ InitUnanswered
    /\ [][NextInvocation]_vars
    /\ WF_vars(HandlerStep)

(***************************************************************************)
(* Requests for reports that come one after the other, part_002:44-393     *)
(***************************************************************************)
MaxRequests == 3

\* the first request arrives; user-1 has no entry in the Map of the
\* function, or one request left in the window
InitReports ==
    /\ target = REPORT
    /\ req \in HttpRequests(REPORT)
    /\ env = ENV_NAMES
    /\ transactions = StoredTransactions
    /\ assessments = StoredAssessments
    /\ \E entry \in {NoEntry, OneLeft(REPORT)} :
          /\ rateLimitStore =
                [fn \in Functions |->
                    IF entry # NoEntry /\ fn = REPORT
                    THEN [u \in {"user-1"} |-> entry] ELSE <<>>]
          /\ admitted =
                [fn \in Functions |-> [u \in Users |->
                    IF entry # NoEntry /\ fn = REPORT /\ u = "user-1"
                    THEN [since |-> 0, count |-> entry.count] ELSE NoWindow]]
    /\ pc = "start"
    /\ duplicateGroups = <<>>
    /\ response = NoResponse
    /\ now = 0
    /\ request = NoRequest
    /\ handlers = [h \in Handlers |-> Idle]
    /\ aiCalls = 0
    /\ aiResponse = NoReply
    /\ audit_reports = <<>>
    /\ sessionStats = NoStats
    /\ UploadNotStarted

\* serve calls the handler for the next request, part_002:44, after the
\* Response of the one before; the clock has moved on
NextRequest ==
    /\ pc = "done"
    /\ now + 1 < MaxRequests
    /\ now' = now + 1
    /\ req' \in HttpRequests(target)
    /\ pc' = "start"
    /\ response' = NoResponse
    /\ request' = NoRequest
    /\ aiCalls' = 0
    /\ aiResponse' = NoReply
    /\ sessionStats' = NoStats
    /\ UNCHANGED <<transactions, duplicateGroups, assessments, rateLimitStore,
                   target, admitted, handlers, audit_reports, env>>
    /\ UNCHANGED uploadVars

NextReports ==
    \/ Authenticate
    \/ Authorize
    \/ ReportBody
    \/ ReportNarrativeAnswers
    \/ NextRequest

SpecReports == InitReports /\ [][NextReports]_vars

(***************************************************************************)
(* Inputs of the statistics of a session, part_002:159-225                 *)
(***************************************************************************)
MaxVendorRows == 6

MaxDeptRows == 4

\* the first vendor with white space around its name
PADDED_VENDOR == <<" ", "a", " ">>

BLANK_VENDOR == <<" ">>

\* the i-th row of a session of many vendors: a vendor of its own or, when
\* shared, the first vendor with white space around the name (even rows) or
\* a blank vendor (odd rows)
VendorRow(i, shared, amount) ==
    [id |-> TxIds[i], session_id |-> "session-1",
     vendor_name |-> IF ~shared THEN <<LowerCaseLetters[i]>>
                     ELSE IF i % 2 = 0 THEN PADDED_VENDOR ELSE BLANK_VENDOR,
     amount |-> amount, department |-> "Finance"]

\* the i-th row of a session of some departments; Upload.tsx:136, 202
\* stores the department trimmed, empty when the file has none
DeptRow(i, department) ==
    [id |-> TxIds[i], session_id |-> "session-1", vendor_name |-> VENDOR_A,
     amount |-> 100000, department |-> department]

\* the risk assessments of rows 1..n: scores[i] for row i, none when the
\* score is below 0
RECURSIVE AssessmentsOf(_, _)
AssessmentsOf(n, scores) ==
    IF n = 0 THEN <<>>
    ELSE IF scores[n] < 0 THEN AssessmentsOf(n - 1, scores)
    ELSE Append(AssessmentsOf(n - 1, scores),
                [transaction_id |-> TxIds[n],
                 risk_level |-> IF scores[n] >= 70 THEN "high" ELSE "medium",
                 risk_score |-> scores[n]])

\* the owner asks for a report of a session with these rows; the request
\* is past the rate limiter
InitStatistics ==
    /\ \/ \E n \in 0..MaxVendorRows :
             \E shared \in [1..n -> BOOLEAN], amounts \in [1..n -> {100000, 200000}] :
                /\ transactions = [i \in 1..n |-> VendorRow(i, shared[i], amounts[i])]
                /\ assessments = <<>>
       \/ \E n \in 1..MaxDeptRows :
             \E departments \in [1..n -> {"", "Finance", "IT"}],
                scores \in [1..n -> {-1, 40, 90}] :
                /\ transactions = [i \in 1..n |-> DeptRow(i, departments[i])]
                /\ assessments = AssessmentsOf(n, scores)
    /\ target = REPORT
    /\ req = AcceptedRequest
    /\ env = ENV_NAMES
    /\ pc = "body"
    /\ duplicateGroups = <<>>
    /\ response = NoResponse
    /\ now = 0
    /\ rateLimitStore = [fn \in Functions |-> <<>>]
    /\ request = NoRequest
    /\ admitted = [fn \in Functions |-> [u \in Users |-> NoWindow]]
    /\ handlers = [h \in Handlers |-> Idle]
    /\ aiCalls = 0
    /\ aiResponse = NoReply
    /\ audit_reports = <<>>
    /\ sessionStats = NoStats
    /\ UploadNotStarted

NextStatistics == ReportBody

SpecStatistics == InitStatistics /\ [][NextStatistics]_vars

(***************************************************************************)
(* handleUpload of the Upload page, Upload.tsx:215-323, with the analysis  *)
(* function it invokes.  upload is the await at which handleUpload is      *)
(* suspended, or "complete" / "error" once it has ended.                   *)
(***************************************************************************)
UPLOADER == "user-1"

\* what from("...").insert / update gives: data, or an error
StorageAnswers == {"stored", "error"}

\* a client that takes the body of every answer of the function as data
InvokeResultAnyStatus(resp) == [error |-> FALSE, data |-> resp]

\* supabase.functions.invoke, Upload.tsx:273-278: data is the body of a
\* Response with a 2xx status, any other status gives error
InvokeResult(resp) ==
    IF resp.status \in 200..299
    THEN [error |-> FALSE, data |-> resp]
    ELSE [error |-> TRUE]

\* the row of Upload.tsx:287-295
RiskRow(a) ==
    [transaction_id |-> a.transaction_id, risk_score |-> a.risk_score,
     risk_level |-> a.risk_level, risk_factors |-> a.risk_factors,
     risk_reason |-> a.risk_reason,
     audit_observation |-> IF "audit_observation" \in DOMAIN a
                           THEN a.audit_observation ELSE Undefined,
     suggested_action |-> IF "suggested_action" \in DOMAIN a
                          THEN a.suggested_action ELSE Undefined]

\* filter((a) => a.risk_level === level).length, Upload.tsx:301-303
LevelCount(as, level) ==
    Cardinality({i \in 1..Len(as) : as[i].risk_level = level})

\* Upload.tsx:216-252: the file is parsed and validated, and the insert of
\* the session is awaited; an empty file ends in the catch
ParseFile ==
    /\ upload = "idle"
    /\ upload' = IF Len(transactions) = 0 THEN "error" ELSE "session"
    /\ UNCHANGED <<session, insertedTx, risk_assessments>>
    /\ UNCHANGED <<transactions, pc, duplicateGroups, assessments, response>>
    /\ UNCHANGED limiterVars
    /\ UNCHANGED callVars
    /\ UNCHANGED storedVars
    /\ UNCHANGED sessionStats

\* Upload.tsx:243-265: the insert of the session has answered; the insert
\* of the transactions is awaited
CreateSession ==
    /\ upload = "session"
    /\ \E answer \in StorageAnswers :
          IF answer = "error"
          THEN upload' = "error" /\ UNCHANGED session
          ELSE /\ session' = [id |-> "session-1", user_id |-> UPLOADER,
                              total_transactions |-> Len(transactions),
                              high_risk_count |-> 0, medium_risk_count |-> 0,
                              low_risk_count |-> 0, status |-> "processing"]
               /\ upload' = "transactions"
    /\ UNCHANGED <<insertedTx, risk_assessments>>
    /\ UNCHANGED <<transactions, pc, duplicateGroups, assessments, response>>
    /\ UNCHANGED limiterVars
    /\ UNCHANGED callVars
    /\ UNCHANGED storedVars
    /\ UNCHANGED sessionStats

\* Upload.tsx:262-278: the insert of the transactions has answered; the
\* function is invoked with the inserted rows and the token of the user,
\* which the function may accept or not
InsertTransactions ==
    /\ upload = "transactions"
    /\ \E answer \in StorageAnswers :
          IF answer = "error"
          THEN upload' = "error" /\ UNCHANGED <<insertedTx, pc, req>>
          ELSE /\ insertedTx' = transactions
               /\ upload' = "invoke"
               /\ pc' = "start"
               /\ \E authorization \in {"Bearer valid", "Bearer invalid"} :
                     req' = [authorization |-> authorization, sub |-> UPLOADER,
                             sessionId |-> session.id,
                             body |-> AcceptedRequest.body]
    /\ UNCHANGED <<session, risk_assessments>>
    /\ UNCHANGED <<transactions, duplicateGroups, assessments, response>>
    /\ UNCHANGED limiterVars
    /\ UNCHANGED callVars
    /\ UNCHANGED <<audit_reports, env>>
    /\ UNCHANGED sessionStats

\* Upload.tsx:273-310: invoke has answered; on an error the catch runs, else
\* the assessments of the answer are inserted and, when that insert gives
\* no error, the update of the session is awaited
StoreAssessments ==
    /\ upload = "invoke"
    /\ pc = "done"
    /\ LET result == InvokeResult(response)
       IN  IF result.error
           THEN upload' = "error" /\ UNCHANGED risk_assessments
           ELSE IF "assessments" \notin DOMAIN result.data
           THEN upload' = "complete" /\ UNCHANGED risk_assessments
           ELSE \E answer \in StorageAnswers :
                   IF answer = "error"
                   THEN upload' = "error" /\ UNCHANGED risk_assessments
                   ELSE /\ risk_assessments' =
                              [i \in 1..Len(result.data.assessments) |->
                                  RiskRow(result.data.assessments[i])]
                        /\ upload' = "update"
    /\ UNCHANGED <<session, insertedTx>>
    /\ UNCHANGED <<transactions, pc, duplicateGroups, assessments, response>>
    /\ UNCHANGED limiterVars
    /\ UNCHANGED callVars
    /\ UNCHANGED storedVars
    /\ UNCHANGED sessionStats

\* Upload.tsx:300-320: the update of the session has answered; its answer
\* is not looked at
UpdateSession ==
    /\ upload = "update"
    /\ \E answer \in StorageAnswers :
          session' =
             IF answer = "error" THEN session
             ELSE [session EXCEPT
                     !.high_risk_count = LevelCount(response.assessments, "high"),
                     !.medium_risk_count = LevelCount(response.assessments, "medium"),
                     !.low_risk_count = LevelCount(response.assessments, "low"),
                     !.status = "completed"]
    /\ upload' = "complete"
    /\ UNCHANGED <<insertedTx, risk_assessments>>
    /\ UNCHANGED <<transactions, pc, duplicateGroups, assessments, response>>
    /\ UNCHANGED limiterVars
    /\ UNCHANGED callVars
    /\ UNCHANGED storedVars
    /\ UNCHANGED sessionStats

\* the user has a parsed file of up to MaxBatch rows; the Map of the
\* analysis function is empty or holds the used-up window of the user
InitUpload ==
    /\ target = ANALYZE
    /\ req = AcceptedRequest
    /\ env = ENV_NAMES
    /\ \E n \in 0..MaxBatch : \E fs \in [1..n -> NarrativeFamily] :
          transactions = [i \in 1..n |-> WithId(fs[i], TxIds[i])]
    /\ \E entry \in {NoEntry, UsedUp(ANALYZE)} :
          /\ rateLimitStore =
                [fn \in Functions |->
                    IF entry # NoEntry /\ fn = ANALYZE
                    THEN [u \in {UPLOADER} |-> entry] ELSE <<>>]
          /\ admitted =
                [fn \in Functions |-> [u \in Users |->
                    IF entry # NoEntry /\ fn = ANALYZE /\ u = UPLOADER
                    THEN [since |-> 0, count |-> entry.count] ELSE NoWindow]]
    /\ pc = "idle"
    /\ duplicateGroups = <<>>
    /\ assessments = <<>>
    /\ response = NoResponse
    /\ now = 0
    /\ request = NoRequest
    /\ handlers = [h \in Handlers |-> Idle]
    /\ aiCalls = 0
    /\ aiResponse = NoReply
    /\ audit_reports = <<>>
    /\ sessionStats = NoStats
    /\ UploadNotStarted

NextUpload ==
    \/ ParseFile
    \/ CreateSession
    \/ InsertTransactions
    \/ Authenticate
    \/ Authorize
    \/ AnalyzeBody
    \/ CallNarrative
    \/ NarrativeAnswers
    \/ StoreAssessments
    \/ UpdateSession

SpecUpload == InitUpload /\ [][NextUpload]_vars

(***************************************************************************)
(* Properties of the rule evaluation                                       *)
(***************************************************************************)
\* the batch was read, found non-empty and evaluated
Evaluated == pc # "body" /\ Len(transactions) > 0

TxIndexes == 1..Len(transactions)

VendorOf(i) == NormalizeText(transactions[i].vendor_name)

BlankVendor(i) == VendorOf(i) = <<>>

\* i and j share vendor (trimmed, uppercased), date and amount (in cents)
SameVendorDateAmount(i, j) ==
    /\ VendorOf(i) = VendorOf(j)
    /\ transactions[i].transaction_date = transactions[j].transaction_date
    /\ AmountCents(transactions[i].amount) = AmountCents(transactions[j].amount)

Sharing(i) == {j \in TxIndexes : SameVendorDateAmount(i, j)}

\* i and j share vendor (trimmed, uppercased) and date
SameVendorDate(i, j) ==
    /\ VendorOf(i) = VendorOf(j)
    /\ transactions[i].transaction_date = transactions[j].transaction_date

OnSameDay(i) == {j \in TxIndexes : SameVendorDate(i, j)}

InDuplicateGroup(i) == ~BlankVendor(i) /\ Cardinality(Sharing(i)) >= 2

HighValue(i) == transactions[i].amount >= 500000 * MILLS_PER_UNIT

\* "United Arab Emirates", "UAE" or "Panama" in any casing
ListedCountry(i) ==
    /\ transactions[i].vendor_country # NullValue
    /\ toUpperCase(transactions[i].vendor_country) \in
          {UNITED_ARAB_EMIRATES, <<"U","A","E">>, <<"P","A","N","A","M","A">>}

FactorTypes(a) == {a.risk_factors[k].type : k \in 1..Len(a.risk_factors)}

\* HIGH, score 90, exactly the duplicate_transaction factor, count occurrences
ClassifiedDuplicate(a, count) ==
    /\ a.risk_level = "high"
    /\ a.risk_score = 90
    /\ Len(a.risk_factors) = 1
    /\ a.risk_factors[1].type = "duplicate_transaction"
    /\ a.risk_factors[1].severity = "HIGH"
    /\ a.risk_factors[1].description.arg = <<count>>
    /\ a.risk_reason.arg = <<count>>

\* C1 as claimed: every transaction that shares vendor, date and amount with
\* another one of the batch is classified HIGH (90) with exactly the duplicate
\* factor, and the count in its reason is the number of transactions sharing.
C1_AllSharingAreDuplicates ==
    Evaluated =>
        \A i \in TxIndexes :
            Cardinality(Sharing(i)) >= 2 =>
                ClassifiedDuplicate(assessments[i], Cardinality(Sharing(i)))

\* C1 amended: the same for the transactions whose vendor name is not blank.
C1_NamedSharingAreDuplicates ==
    Evaluated =>
        \A i \in TxIndexes :
            (~BlankVendor(i) /\ Cardinality(Sharing(i)) >= 2) =>
                ClassifiedDuplicate(assessments[i], Cardinality(Sharing(i)))

\* a group of three, spelled differently, met and counted
C1_Witness ==
    /\ Evaluated
    /\ \E i \in TxIndexes :
        /\ ~BlankVendor(i)
        /\ Cardinality(Sharing(i)) = 3
        /\ \E j \in Sharing(i) :
              transactions[j].vendor_name # transactions[i].vendor_name
        /\ ClassifiedDuplicate(assessments[i], 3)

\* C2: a member of a duplicate group that also meets the high-value, the
\* vendor-country or the frequency condition is classified by the duplicate
\* rule alone: score 90, tier high, the single duplicate_transaction factor.
C2_DuplicateRuleWinsAlone ==
    Evaluated =>
        \A i \in TxIndexes :
            (InDuplicateGroup(i)
               /\ (HighValue(i) \/ ListedCountry(i) \/ Cardinality(OnSameDay(i)) > 1)) =>
                /\ assessments[i].risk_score = 90
                /\ assessments[i].risk_level = "high"
                /\ FactorTypes(assessments[i]) = {"duplicate_transaction"}
                /\ Len(assessments[i].risk_factors) = 1

\* a duplicate above 1,000,000 from a listed country
C2_Witness ==
    /\ Evaluated
    /\ \E i \in TxIndexes :
        /\ InDuplicateGroup(i)
        /\ transactions[i].amount > 1000000 * MILLS_PER_UNIT
        /\ ListedCountry(i)
        /\ assessments[i].risk_score = 90
        /\ FactorTypes(assessments[i]) = {"duplicate_transaction"}

\* the one factor of a flagged assessment agrees with its tier and score
OneFactorOfTier(a) ==
    /\ Len(a.risk_factors) = 1
    /\ \/ /\ a.risk_level = "high"
          /\ a.risk_score \in {90, 85}
          /\ a.risk_factors[1].severity = "HIGH"
       \/ /\ a.risk_level = "medium"
          /\ a.risk_score \in {60, 50, 45}
          /\ a.risk_factors[1].severity = "MEDIUM"

\* C3: every assessment is either low with score 0 and no factor, or not low
\* with exactly one factor whose severity is that of its tier (HIGH for the
\* scores 90 and 85, MEDIUM for 60, 50 and 45).
C3_OneRuleChainOutcome ==
    Evaluated =>
        \A i \in TxIndexes :
            LET a == assessments[i]
            IN  \/ a.risk_level = "low" /\ a.risk_score = 0 /\ a.risk_factors = <<>>
                \/ a.risk_level # "low" /\ OneFactorOfTier(a)

\* a batch that ends in three different rules: 85 by the amount, 60 by the
\* amount band with a MEDIUM factor, 45 by the frequency
C3_Witness ==
    /\ Evaluated
    /\ \E i, j, k \in TxIndexes :
        /\ assessments[i].risk_score = 85
        /\ assessments[i].risk_factors[1].severity = "HIGH"
        /\ assessments[j].risk_score = 60
        /\ assessments[j].risk_factors[1].severity = "MEDIUM"
        /\ assessments[k].risk_score = 45
        /\ Len(assessments[k].risk_factors) = 1

HighValueFactor(a) == "high_value_transaction" \in FactorTypes(a)

\* C4: without the duplicate rule, 1,000,000 is MEDIUM (60), every amount above
\* it is HIGH (85), 500,000 is MEDIUM (60), and an amount below 500,000 is left
\* to the vendor-country and frequency rules.
C4_HighValueBoundaries ==
    Evaluated =>
        \A i \in TxIndexes :
            LET a      == assessments[i]
                amount == transactions[i].amount
            IN  ~InDuplicateGroup(i) =>
                  /\ amount > 1000000 * MILLS_PER_UNIT =>
                        a.risk_level = "high" /\ a.risk_score = 85 /\ HighValueFactor(a)
                  /\ (amount >= 500000 * MILLS_PER_UNIT /\ amount <= 1000000 * MILLS_PER_UNIT) =>
                        a.risk_level = "medium" /\ a.risk_score = 60 /\ HighValueFactor(a)
                  /\ amount < 500000 * MILLS_PER_UNIT =>
                        /\ ~HighValueFactor(a)
                        /\ a.risk_score \in {50, 45, 0}
                        /\ FactorTypes(a) \subseteq {"vendor_country_risk", "frequency_risk"}

\* the four amounts of the claim in one batch
C4_Witness ==
    /\ Evaluated
    /\ \E i, j, k \in TxIndexes :
        /\ transactions[i].amount = 1000000 * MILLS_PER_UNIT
        /\ assessments[i].risk_score = 60
        /\ transactions[j].amount = 1000000 * MILLS_PER_UNIT + 10
        /\ assessments[j].risk_score = 85
        /\ transactions[k].amount = 499999 * MILLS_PER_UNIT
        /\ assessments[k].risk_score \in {50, 0}
    /\ \E i \in TxIndexes : ~InDuplicateGroup(i)

\* rules 1 to 3 do not fire for transaction i
NoEarlierRule(i) == ~InDuplicateGroup(i) /\ ~HighValue(i) /\ ~ListedCountry(i)

\* MEDIUM, score 45, the frequency_risk factor, count payments
ClassifiedFrequent(a, count) ==
    /\ a.risk_level = "medium"
    /\ a.risk_score = 45
    /\ Len(a.risk_factors) = 1
    /\ a.risk_factors[1].type = "frequency_risk"
    /\ a.risk_factors[1].description.arg = <<count>>
    /\ a.risk_reason.arg = <<count>>

\* C5 as claimed: a transaction on which rules 1 to 3 do not fire is MEDIUM
\* (45, frequency_risk) whenever more than one transaction of the batch,
\* itself counted, shares its normalized vendor name and its date, and the
\* count in the reason is that number.
C5_FrequencyRule ==
    Evaluated =>
        \A i \in TxIndexes :
            (NoEarlierRule(i) /\ Cardinality(OnSameDay(i)) > 1) =>
                ClassifiedFrequent(assessments[i], Cardinality(OnSameDay(i)))

\* C5 amended: the same for the transactions whose vendor name is not blank.
C5_FrequencyRuleNamedVendor ==
    Evaluated =>
        \A i \in TxIndexes :
            (NoEarlierRule(i) /\ ~BlankVendor(i) /\ Cardinality(OnSameDay(i)) > 1) =>
                ClassifiedFrequent(assessments[i], Cardinality(OnSameDay(i)))

\* same vendor, spelled differently, same date, two amounts: both 45, count 2
C5_Witness ==
    /\ Evaluated
    /\ \E i, j \in TxIndexes :
        /\ i # j
        /\ OnSameDay(i) = {i, j}
        /\ ~BlankVendor(i)
        /\ transactions[i].vendor_name # transactions[j].vendor_name
        /\ transactions[i].amount # transactions[j].amount
        /\ ClassifiedFrequent(assessments[i], 2)
        /\ ClassifiedFrequent(assessments[j], 2)

\* MEDIUM, score 50, the vendor_country_risk factor
ClassifiedCountry(a) ==
    /\ a.risk_level = "medium"
    /\ a.risk_score = 50
    /\ Len(a.risk_factors) = 1
    /\ a.risk_factors[1].type = "vendor_country_risk"

\* C6: a transaction whose vendor country is "United Arab Emirates", "UAE" or
\* "Panama" in any casing is MEDIUM (50, vendor_country_risk) if and only if
\* neither the duplicate rule nor the high-value rule fired for it.
C6_VendorCountryRule ==
    Evaluated =>
        \A i \in TxIndexes :
            ListedCountry(i) =>
                (ClassifiedCountry(assessments[i])
                    <=> (~InDuplicateGroup(i) /\ ~HighValue(i)))

\* the long name, mixed case, classified by rule 3 with the reason naming UAE,
\* next to a listed-country transaction that an earlier rule took
C6_Witness ==
    /\ Evaluated
    /\ \E i, j \in TxIndexes :
        /\ transactions[i].vendor_country = UnitedArabEmirates
        /\ ClassifiedCountry(assessments[i])
        /\ assessments[i].risk_reason.arg = <<"U","A","E">>
        /\ ListedCountry(j)
        /\ ~ClassifiedCountry(assessments[j])

\* C7: for a non-empty batch the evaluation does not fail, and the assessment
\* list holds one assessment per transaction, in input order, with the
\* transaction's id, one tier of low, medium, high and a score in 0..100.
C7_OneAssessmentPerTransaction ==
    (pc # "body" /\ Len(transactions) > 0) =>
        /\ response.status # 500
        /\ Len(assessments) = Len(transactions)
        /\ \A i \in TxIndexes :
            /\ assessments[i].transaction_id = transactions[i].id
            /\ assessments[i].risk_level \in {"low", "medium", "high"}
            /\ assessments[i].risk_score \in 0..100

\* a batch of flagged and unflagged transactions, evaluated
C7_Witness ==
    /\ pc = "narrative"
    /\ Len(assessments) = MaxBatch
    /\ \E i, j \in TxIndexes :
        assessments[i].risk_level = "low" /\ assessments[j].risk_level # "low"

\* the batch in the order p: position k holds transaction p[k]
Reordered(p) == [k \in TxIndexes |-> transactions[p[k]]]

\* C8: under every permutation of a batch with distinct ids, each transaction
\* receives the same tier, score, factor and reason, counts included.
C8_OrderIndependence ==
    Evaluated =>
        \A p \in Permutations(TxIndexes) :
            LET reordered == EvaluateBatch(Reordered(p))
            IN  \A k \in TxIndexes : reordered[k] = assessments[p[k]]

\* two duplicates with a third transaction between them, and a frequency pair
\* whose count is written in the reason
C8_Witness ==
    /\ Evaluated
    /\ Len(transactions) = 3
    /\ SameVendorDateAmount(1, 3)
    /\ ~SameVendorDateAmount(1, 2)
    /\ ClassifiedDuplicate(assessments[1], 2)
    /\ ClassifiedDuplicate(assessments[3], 2)
    /\ ClassifiedFrequent(assessments[2], 3)

GroupedIds == UNION { {duplicateGroups[g].ids[k] : k \in 1..Len(duplicateGroups[g].ids)}
                        : g \in 1..Len(duplicateGroups) }

\* C9: a transaction whose vendor name is empty or white space only is in no
\* duplicate group and is never classified by the duplicate rule.
C9_BlankVendorNeverDuplicate ==
    Evaluated =>
        \A i \in TxIndexes :
            BlankVendor(i) =>
                /\ transactions[i].id \notin GroupedIds
                /\ "duplicate_transaction" \notin FactorTypes(assessments[i])
                /\ assessments[i].risk_score # 90

\* an empty and a white-space vendor name with the same date and amount, in
\* a batch that has a named transaction to group
C9_Witness ==
    /\ Evaluated
    /\ \E i, j \in TxIndexes :
        /\ i # j
        /\ transactions[i].vendor_name = <<>>
        /\ transactions[j].vendor_name = <<" ">>
        /\ SameVendorDateAmount(i, j)
        /\ assessments[i].risk_level = "low"
        /\ assessments[j].risk_level = "low"
    /\ duplicateGroups # <<>>


(***************************************************************************)
(* Properties of the rate limiter                                          *)
(***************************************************************************)
\* the ceiling and the window length the specification states per endpoint
StatedCeiling(fn) == IF fn = ANALYZE THEN 10 ELSE 20

StatedWindowSeconds(fn) == IF fn = ANALYZE THEN 3600 ELSE 86400

Denied == request # NoRequest /\ response.status = 429

\* C10: for each caller and each endpoint, once N requests (10 for analysis,
\* 20 for report generation) have been allowed in the current window, every
\* further request before the window's reset time is denied with HTTP 429:
\* the requests not answered 429 within one window never exceed N; and a
\* denial carries a retry-after that is positive and no greater than the
\* window's duration in seconds.
C10_CeilingPerWindow ==
    /\ \A fn \in Functions, u \in Users :
          admitted[fn][u].count <= StatedCeiling(fn)
    /\ Denied =>
          /\ response.retry_after \in 1..StatedWindowSeconds(request.fn)
          /\ response.headers.RetryAfter = response.retry_after

\* C10 happens: the 21st report request of a caller in one window is denied
\* in the window's last second
C10_Witness ==
    /\ Denied
    /\ request.fn = REPORT
    /\ admitted[REPORT][request.userId].count = 20
    /\ response.retry_after = 1


\* the caller has no entry, or the caller's window has reached its reset time
WindowOver(fn, u) ==
    \/ u \notin DOMAIN rateLimitStore[fn]
    \/ now >= rateLimitStore[fn][u].resetTime

\* C11: a request of a caller that arrives at or after the reset time of the
\* caller's window, or that is the caller's first, is allowed whatever the
\* count had reached, and leaves the caller a window with count 1 and reset
\* time = arrival time + window duration.
C11_WindowReset ==
    [][\A fn \in Functions, u \in Users :
          (Admit(fn, u) /\ WindowOver(fn, u)) =>
              /\ response'.status # 429
              /\ pc' = "body"
              /\ rateLimitStore'[fn][u] =
                    [count |-> 1,
                     resetTime |-> now + 1000 * StatedWindowSeconds(fn)]]_vars

\* C11 happens: a caller who had used up the ceiling is allowed at the very
\* reset time of the window, and the window restarts
C11_Witness ==
    /\ request # NoRequest
    /\ request.userLimit.count = StatedCeiling(request.fn)
    /\ now = request.userLimit.resetTime
    /\ response.status # 429
    /\ rateLimitStore[request.fn][request.userId] =
          [count |-> 1, resetTime |-> now + 1000 * StatedWindowSeconds(request.fn)]


\* the handlers of caller u that the limiter let through and that still run
Running(u) == {h \in Handlers : handlers[h] = [pc |-> "body", userId |-> u]}

\* C12: with request handlers of the same caller running at the same time on
\* one endpoint, every rate-limit check takes effect as a whole: the stored
\* count of a caller is the number of requests the limiter let through in the
\* caller's window (no increment is lost), and that number never exceeds the
\* ceiling.
C12_AtomicChecks ==
    \A u \in Users :
        /\ admitted[target][u].count <= StatedCeiling(target)
        /\ MapGet(rateLimitStore[target], u).count = admitted[target][u].count
        /\ u \in DOMAIN rateLimitStore[target] =>
              rateLimitStore[target][u].resetTime =
                  admitted[target][u].since + 1000 * StatedWindowSeconds(target)

\* C12 happens: two handlers of one caller were let through and still run,
\* a third handler of the caller waits for its claims, and the caller's
\* count is at the ceiling
C12_Witness ==
    \E u \in Users :
        /\ Cardinality(Running(u)) = 2
        /\ \E h \in Handlers : handlers[h] = [pc |-> "claims", userId |-> u]
        /\ MapGet(rateLimitStore[target], u).count = StatedCeiling(target)


\* C13: a rate-limit check for caller u on function fn changes only the entry
\* of u on fn: the entries of every other caller and the entry of u on the
\* other function stay as they were; and a request is denied only when the
\* caller has used up the ceiling of that very function.
C13_Isolation ==
    [][\A fn \in Functions, u \in Users :
          Admit(fn, u) =>
              /\ \A g \in Functions, v \in Users :
                    (g # fn \/ v # u) =>
                        /\ (v \in DOMAIN rateLimitStore'[g]) = (v \in DOMAIN rateLimitStore[g])
                        /\ MapGet(rateLimitStore'[g], v) = MapGet(rateLimitStore[g], v)
              /\ response'.status = 429 =>
                    admitted[fn][u].count >= StatedCeiling(fn)]_vars

\* C13 happens: a caller who has used up the analysis ceiling, and whose
\* analysis window is still open, is let through by the report function,
\* while the other caller has an entry of its own on both functions
C13_Witness ==
    \E u \in Users :
        /\ request.fn = REPORT /\ request.userId = u
        /\ response.status # 429
        /\ MapGet(rateLimitStore[ANALYZE], u).count = StatedCeiling(ANALYZE)
        /\ now < MapGet(rateLimitStore[ANALYZE], u).resetTime
        /\ \A v \in Users \ {u}, g \in Functions :
              MapGet(rateLimitStore[g], v).count \in 1..(StatedCeiling(g) - 1)


(***************************************************************************)
(* Properties of the narrative call of the analysis handler                *)
(***************************************************************************)
\* the handler has answered after the narrative generator was called
AnsweredAfterCall == pc = "done" /\ aiResponse # NoReply

HasAssessments(resp) == "assessments" \in DOMAIN resp

\* what the rule evaluator computed for the batch before the call
Computed == EvaluateBatch(transactions)

Tiered(a) ==
    [transaction_id |-> a.transaction_id, risk_level |-> a.risk_level,
     risk_score |-> a.risk_score, risk_reason |-> a.risk_reason]

Deterministic(a) ==
    [transaction_id |-> a.transaction_id, risk_level |-> a.risk_level,
     risk_score |-> a.risk_score, risk_factors |-> a.risk_factors,
     triggered_rules |-> a.triggered_rules, risk_reason |-> a.risk_reason]

ADVISORY_FIELDS == {"audit_observation", "suggested_action"}

\* C14: for every analysis request that reached rule evaluation, whatever
\* way the narrative call fails (rejected fetch, non-success status, success
\* with a body or content that is missing, malformed or not JSON, entries
\* with unmatched ids), the response contains all deterministic assessments
\* with unchanged tier, score and reason.
C14_FailureKeepsAssessments ==
    AnsweredAfterCall =>
        /\ HasAssessments(response)
        /\ Len(response.assessments) = Len(transactions)
        /\ \A i \in 1..Len(transactions) :
              Tiered(response.assessments[i]) = Tiered(Computed[i])

C16_MergeKeepsDeterministicFields ==
    (pc = "done" /\ HasAssessments(response)) =>
        /\ Len(response.assessments) = Len(transactions)
        /\ \A i \in 1..Len(transactions) :
              /\ Deterministic(response.assessments[i]) = Deterministic(Computed[i])
              /\ DOMAIN response.assessments[i] \subseteq
                    DOMAIN Computed[i] \cup ADVISORY_FIELDS

\* C16 happens: an explanation of the generator, which carries a reason of
\* its own, was merged into an assessment
C16_Witness ==
    /\ AnsweredAfterCall
    /\ HasAssessments(response)
    /\ \E i \in 1..Len(response.assessments) :
          /\ "audit_observation" \in DOMAIN response.assessments[i]
          /\ response.assessments[i].audit_observation = Explanation(UNKNOWN_ID).audit_observation
          /\ response.assessments[i].risk_reason # Explanation(UNKNOWN_ID).risk_reason

\* C17: in every analysis response, whatever entries the narrative generator
\* returned, no assessment with tier low carries an audit observation or a
\* suggested action.
C17_AdvisoryOnlyForFlagged ==
    (pc = "done" /\ HasAssessments(response)) =>
        \A i \in 1..Len(response.assessments) :
            response.assessments[i].risk_level = "low" =>
                DOMAIN response.assessments[i] \cap ADVISORY_FIELDS = {}

AllLow == transactions # <<>> /\ \A i \in 1..Len(transactions) : Computed[i].risk_level = "low"

\* C18: an analysis request whose batch yields only low-tier assessments
\* returns all assessments with a success status and never calls the
\* narrative generator.
C18_AllLowSkipsNarrative ==
    AllLow =>
        /\ aiCalls = 0
        /\ aiResponse = NoReply
        /\ pc \in {"body", "done"}
        /\ pc = "done" => response = [status |-> 200, assessments |-> Computed]

\* C18 happens: a batch of two low transactions was answered
C18_Witness ==
    /\ AllLow
    /\ Len(transactions) = 2
    /\ pc = "done"
    /\ response.status = 200


(***************************************************************************)
(* Properties of one invocation                                            *)
(***************************************************************************)
\* the Response of a request rejected by authentication, by the rate limiter
\* of the function or by the validation of its input
Rejected(resp) ==
    \/ resp.status = 401
    \/ resp.status = 429 /\ "retry_after" \in DOMAIN resp
    \/ /\ resp.status = 500
       /\ resp.error \in {"No transactions provided", "Session ID is required",
                          "Session not found or access denied"}

\* C19: an invocation of analyze or generate-report calls the narrative
\* generator at most once, also when the call fails, and a request rejected
\* by authentication, rate limiting or validation calls it not at all.
C19_AtMostOneCall ==
    /\ aiCalls <= 1
    /\ aiResponse # NoReply => aiCalls = 1
    /\ (pc = "done" /\ Rejected(response)) => (aiCalls = 0 /\ aiResponse = NoReply)

\* C19 happens: a report request whose call of the generator was rejected
\* has been answered after that one call
C19_Witness ==
    /\ target = REPORT
    /\ pc = "done"
    /\ aiResponse = [fetch |-> "rejected"]
    /\ aiCalls = 1
    /\ response.status = 500

GENERIC_REPORT_FAILURE ==
    [status |-> 500, error |-> "Report generation failed. Please try again."]

\* the failures of the generator the claim names: 429, 402, another
\* non-success status, missing content, content that is not valid JSON
NamedFailure(reply) ==
    /\ reply.fetch = "resolved"
    /\ \/ reply.status \in {429, 402, 500}
       \/ /\ reply.status = 200
          /\ reply.body.json
          /\ reply.body.data # JsonNull
          /\ LET content == ContentOf(reply.body.data)
             IN  \/ content = Undefined
                 \/ content = StringOf(<<>>)
                 \/ content = StringOf(<<Prose>>)

\* C20: during report generation every failure of the narrative generator
\* leaves audit_reports unchanged and gives the caller an upstream error that
\* differs from the generic internal-failure response; a report row is
\* inserted only after a successfully parsed narrative.
C20_UpstreamFailureDistinct ==
    /\ (target = REPORT /\ pc = "done" /\ NamedFailure(aiResponse)) =>
          /\ audit_reports = <<>>
          /\ response.status # 200
          /\ response # GENERIC_REPORT_FAILURE
    /\ audit_reports # <<>> =>
          /\ aiResponse.fetch = "resolved"
          /\ aiResponse.status = 200
          /\ response.status = 200

SESSION_NOT_FOUND == "Session not found or access denied"

\* C22: a generate-report request for a session that does not exist or is
\* not the caller's is answered with "Session not found or access denied"
\* under a status of its own (404-equivalent), not the status of the generic
\* internal failure.
C22_SessionNotFoundStatus ==
    (target = REPORT /\ pc = "done" /\ response.status # 0
        /\ "error" \in DOMAIN response /\ response.error = SESSION_NOT_FOUND) =>
          response.status # GENERIC_REPORT_FAILURE.status

\* C23: every 429 response of either function carries retry_after, a number
\* of seconds, whether the 429 is the one of the function's own rate limiter
\* or the one given for a 429 of the narrative generator.
C23_RetryAfterOnEvery429 ==
    (pc = "done" /\ response.status = 429) =>
        /\ "retry_after" \in DOMAIN response
        /\ response.retry_after \in Nat

GENERIC_ANALYSIS_FAILURE == "Analysis failed. Please try again."

NO_TRANSACTIONS == "No transactions provided"

\* the body is JSON and its transactions are missing, not an array or an
\* empty array
InvalidBatch ==
    /\ req.body.json
    /\ req.body.transactions # "list" \/ Len(transactions) = 0

\* C24: a 500 response of the analysis carries the generic message or "No
\* transactions provided", the latter exactly when the handler read a body
\* whose transactions are missing, not a list or empty; a 500 response of
\* the report generation carries its generic message or one of its two
\* validation messages; the text of no other error gets to the caller.
C24_ErrorSanitization ==
    (pc = "done" /\ response.status = 500) =>
        IF target = ANALYZE
        THEN /\ response.error \in {GENERIC_ANALYSIS_FAILURE, NO_TRANSACTIONS}
             /\ response.error = NO_TRANSACTIONS <=>
                   (InvalidBatch /\ ENV_NAMES \subseteq env)
        ELSE response.error \in
                {GENERIC_REPORT_FAILURE.error, "Session ID is required",
                 SESSION_NOT_FOUND}

\* a body that is not JSON and whose text names the validation error was
\* answered with the generic message, and an empty batch with the named one
C24_Witness ==
    /\ target = ANALYZE /\ pc = "done" /\ response.status = 500
    /\ ~req.body.json /\ req.body.text = NO_TRANSACTIONS
    /\ response.error = GENERIC_ANALYSIS_FAILURE

\* the entry of the caller of the request in the Map of the function
CallerEntry(store) == MapGet(store[target], req.sub)

\* the request was rejected by the validation of its input: an empty batch,
\* a missing session id, a session that is not the caller's
RejectedByValidation ==
    /\ pc = "done"
    /\ response.status = 500
    /\ response.error \in {NO_TRANSACTIONS, "Session ID is required", SESSION_NOT_FOUND}

\* the 429 of the function's own limiter
DeniedByLimiter ==
    pc = "done" /\ response.status = 429 /\ "retry_after" \in DOMAIN response

\* C28: on both functions the rate-limit entries change only in the step
\* that follows the acceptance of the credentials: a step that answers 401
\* changes no entry; the step that lets the request through adds one to the
\* count of the caller (or starts a window at 1) and changes no other entry,
\* before the input is validated; no later step changes an entry, so a
\* request rejected for an empty batch, a missing session id or a session
\* that is not the caller's has consumed one unit; a request the limiter
\* denied has consumed none.
C28_ChecksThenQuota ==
    /\ [](RejectedByValidation =>
            /\ request.userId = req.sub
            /\ CallerEntry(rateLimitStore).count = request.userLimit.count + 1)
    /\ [](DeniedByLimiter => CallerEntry(rateLimitStore) = request.userLimit)
    /\ [][/\ response'.status = 401 => rateLimitStore' = rateLimitStore
          /\ pc # "claims" => rateLimitStore' = rateLimitStore
          /\ (pc = "claims" /\ pc' = "body") =>
                /\ CallerEntry(rateLimitStore').count =
                      CallerEntry(rateLimitStore).count + 1
                /\ \A u \in Users \ {req.sub} :
                      MapGet(rateLimitStore'[target], u) =
                      MapGet(rateLimitStore[target], u)
          /\ (pc = "claims" /\ response'.status = 429) =>
                rateLimitStore' = rateLimitStore]_vars

\* a request with an empty batch took the last unit of the caller's window
C28_Witness ==
    /\ RejectedByValidation
    /\ response.error = NO_TRANSACTIONS
    /\ request.userLimit = OneLeft(target)
    /\ CallerEntry(rateLimitStore).count = MaxPerWindow(target)

\* C21: a report is immutable once created.  Every step of every
\* generate-report request leaves audit_reports as it is or adds one row at
\* its end, tied to the session named and to the caller, and that only with
\* the success Response; every request that succeeds adds its row; the rows
\* already there, of the same session or another, stay as they are.
C21_ReportsAppendOnly ==
    [][/\ \/ audit_reports' = audit_reports
          \/ /\ Len(audit_reports') = Len(audit_reports) + 1
             /\ SubSeq(audit_reports', 1, Len(audit_reports)) = audit_reports
             /\ audit_reports'[Len(audit_reports')].session_id = req.sessionId
             /\ audit_reports'[Len(audit_reports')].user_id = req.sub
             /\ response'.status = 200
             /\ response'.success
       /\ (pc = "fetch" /\ response'.status = 200) =>
             Len(audit_reports') = Len(audit_reports) + 1]_vars

\* a report was generated twice for one session: both rows are there
C21_Witness ==
    /\ Len(audit_reports) = 2
    /\ audit_reports[1].session_id = audit_reports[2].session_id
    /\ pc = "done" /\ response.status = 200

\* the owner of the session of that id
OwnerOf(sessionId) ==
    (CHOOSE row \in analysis_sessions : row.id = sessionId).user_id

\* the request names a session that is another user's
NamesForeignSession ==
    /\ target = REPORT
    /\ \E row \in analysis_sessions :
          row.id = req.sessionId /\ row.user_id # req.sub

\* the stored transactions of a session
StoredOf(sessionId) == SelectTransactions(StoredTransactions, sessionId)

\* C29: in every sequence of generate-report requests, a request that names
\* a session of another user builds no statistics from the rows of that
\* session, makes no call of the narrative generator and inserts no report;
\* statistics are built only from the rows of a session of the caller; every
\* row of audit_reports has the user_id of the owner of its session, and the
\* request that inserted it was the owner's, with accepted credentials.
C29_SessionIsolation ==
    /\ [](NamesForeignSession => (sessionStats = NoStats /\ aiCalls = 0))
    /\ [](sessionStats # NoStats =>
            /\ sessionStats.session_id = req.sessionId
            /\ OwnerOf(req.sessionId) = req.sub
            /\ req.authorization = "Bearer valid"
            /\ sessionStats.totalTransactions = Len(StoredOf(req.sessionId)))
    /\ [](\A i \in 1..Len(audit_reports) :
            audit_reports[i].user_id = OwnerOf(audit_reports[i].session_id))
    /\ [][/\ NamesForeignSession => audit_reports' = audit_reports
          /\ audit_reports' # audit_reports =>
                /\ req.authorization = "Bearer valid"
                /\ OwnerOf(req.sessionId) = req.sub
                /\ audit_reports'[Len(audit_reports')].user_id = req.sub]_vars

\* user-1, with accepted credentials, asked for a report of the session of
\* user-2 after user-2 had one generated
C29_Witness ==
    /\ NamesForeignSession
    /\ req.authorization = "Bearer valid"
    /\ req.sub = "user-1"
    /\ pc = "done"
    /\ response.status = 500 /\ response.error = SESSION_NOT_FOUND
    /\ Len(audit_reports) = 1
    /\ audit_reports[1].session_id = req.sessionId

\* ---- Properties of the statistics ----
StatsBuilt == target = REPORT /\ sessionStats # NoStats

\* the department a transaction is counted under: its own, or the
\* placeholder when it has none
CountedDepartment(i) ==
    IF transactions[i].department = "" THEN "Unknown"
    ELSE transactions[i].department

InDepartment(d) == {i \in TxIndexes : CountedDepartment(i) = d}

Assessed(i) ==
    \E k \in 1..Len(assessments) :
        assessments[k].transaction_id = transactions[i].id

\* the score of the assessment of transaction i, 0 without an assessment
ContributedScore(i) ==
    IF Assessed(i)
    THEN (CHOOSE ra \in {assessments[k] : k \in 1..Len(assessments)} :
             ra.transaction_id = transactions[i].id).risk_score
    ELSE 0

RECURSIVE SumOfScores(_)
SumOfScores(S) ==
    IF S = {} THEN 0
    ELSE LET i == CHOOSE x \in S : TRUE
         IN  ContributedScore(i) + SumOfScores(S \ {i})

\* C25: the department breakdown has one entry for every department of the
\* session and no other; the risk score of the entry is the sum of the
\* scores of the assessments of the department's transactions divided by
\* the number of its transactions, a transaction without an assessment
\* counting with score 0; a department without any assessed transaction has
\* risk score 0; the transactions without a department are counted under
\* the one placeholder department.
C25_DepartmentAverage ==
    StatsBuilt =>
        LET breakdown == sessionStats.departmentBreakdown
            Entries(d) == {k \in 1..Len(breakdown) : breakdown[k].department = d}
        IN  /\ \A k \in 1..Len(breakdown) : InDepartment(breakdown[k].department) # {}
            /\ \A i \in TxIndexes :
                  LET d == CountedDepartment(i)
                  IN  /\ Cardinality(Entries(d)) = 1
                      /\ \A k \in Entries(d) :
                            /\ breakdown[k].count = Cardinality(InDepartment(d))
                            /\ breakdown[k].riskScore.divisor > 0
                            /\ breakdown[k].riskScore.dividend * Cardinality(InDepartment(d))
                                  = SumOfScores(InDepartment(d))
                                      * breakdown[k].riskScore.divisor
                            /\ (\A j \in InDepartment(d) : ~Assessed(j)) =>
                                  breakdown[k].riskScore.dividend = 0

\* a department of two transactions, one assessed with 90 and one not, got
\* the risk score 45, and two transactions without a department are counted
\* under the placeholder
C25_Witness ==
    /\ StatsBuilt
    /\ \E k \in 1..Len(sessionStats.departmentBreakdown) :
          LET e == sessionStats.departmentBreakdown[k]
          IN  /\ e.department = "Finance"
              /\ e.count = 2
              /\ e.riskScore.dividend = 90
              /\ \E j \in InDepartment("Finance") : ~Assessed(j)
    /\ \E k \in 1..Len(sessionStats.departmentBreakdown) :
          /\ sessionStats.departmentBreakdown[k].department = "Unknown"
          /\ sessionStats.departmentBreakdown[k].count = 2

\* the vendor a transaction is counted under: its name without the white
\* space around it, or the placeholder when nothing is left
CountedVendor(i) ==
    IF trim(transactions[i].vendor_name) = <<>> THEN UNIDENTIFIED
    ELSE trim(transactions[i].vendor_name)

OfVendor(v) == {i \in TxIndexes : CountedVendor(i) = v}

SessionVendors == {CountedVendor(i) : i \in TxIndexes}

RECURSIVE SumOfAmounts(_)
SumOfAmounts(S) ==
    IF S = {} THEN 0
    ELSE LET i == CHOOSE x \in S : TRUE
         IN  transactions[i].amount + SumOfAmounts(S \ {i})

\* the place of the first transaction of the vendor
FirstAppearance(v) == CHOOSE i \in OfVendor(v) : \A j \in OfVendor(v) : i <= j

\* C26: topVendors holds at most 5 vendors, all of them when the session has
\* at most 5, each once with the number of its transactions and the sum of
\* their amounts, the transactions with a blank vendor name under the one
\* placeholder; the entries are in descending order of total amount; no
\* vendor left out has a larger total than a vendor included; among equal
\* totals the vendor that appears first in the session comes first, and is
\* the one included.
C26_TopVendors ==
    StatsBuilt =>
        LET top == sessionStats.topVendors
            Included == {top[k].name : k \in 1..Len(top)}
        IN  /\ Len(top) <= 5
            /\ Len(top) = IF Cardinality(SessionVendors) < 5
                          THEN Cardinality(SessionVendors) ELSE 5
            /\ Included \subseteq SessionVendors
            /\ Cardinality(Included) = Len(top)
            /\ \A k \in 1..Len(top) :
                  /\ top[k].count = Cardinality(OfVendor(top[k].name))
                  /\ top[k].totalAmount = SumOfAmounts(OfVendor(top[k].name))
            /\ \A k, l \in 1..Len(top) :
                  k < l =>
                    /\ top[k].totalAmount >= top[l].totalAmount
                    /\ top[k].totalAmount = top[l].totalAmount =>
                          FirstAppearance(top[k].name) < FirstAppearance(top[l].name)
            /\ \A v \in SessionVendors \ Included : \A k \in 1..Len(top) :
                  /\ SumOfAmounts(OfVendor(v)) <= top[k].totalAmount
                  /\ SumOfAmounts(OfVendor(v)) = top[k].totalAmount =>
                        FirstAppearance(top[k].name) < FirstAppearance(v)

\* a session of six vendors, one of them the placeholder: the vendor left
\* out has the total of an included one that appears before it, and a
\* vendor with the larger total comes before vendors that appear earlier
C26_Witness ==
    /\ StatsBuilt
    /\ Cardinality(SessionVendors) = 6
    /\ UNIDENTIFIED \in SessionVendors
    /\ Len(sessionStats.topVendors) = 5
    /\ \E v \in SessionVendors :
          /\ \A k \in 1..5 : sessionStats.topVendors[k].name # v
          /\ SumOfAmounts(OfVendor(v)) = sessionStats.topVendors[5].totalAmount
    /\ FirstAppearance(sessionStats.topVendors[1].name) > 1

\* C27: every request to either function is answered in the end, also when
\* the narrative generator never answers the call: the handler then returns
\* a Response as for a failed narrative call instead of waiting for ever.
C27_BoundedResponse == <>(pc = "done" /\ response # NoResponse)

\* ---- Properties of the upload ----
\* the analysis function answered the invocation with an error status
AnalyzeFailed == upload # "idle" /\ pc = "done" /\ response.status \notin 200..299

\* C30: handleUpload creates the session in status processing and sets it
\* to completed only after it stored the assessments the analysis returned;
\* then the high, medium and low counts add up to the number of stored
\* assessments and to total_transactions.  When the analysis answers with
\* an error, a 429 or 402 that carries assessments included, or when the
\* insert of the assessments fails, the run stores no assessment, the
\* session and its transactions stay stored and the session stays in
\* processing; the session is never set to failed.
C30_UploadLifecycle ==
    /\ [](session # NoSession => session.status \in {"processing", "completed"})
    /\ [](session # NoSession /\ session.status = "completed" =>
            /\ upload = "complete"
            /\ response.status = 200
            /\ risk_assessments =
                  [i \in 1..Len(response.assessments) |-> RiskRow(response.assessments[i])]
            /\ session.high_risk_count + session.medium_risk_count
                  + session.low_risk_count = Len(risk_assessments)
            /\ Len(risk_assessments) = session.total_transactions
            /\ Len(insertedTx) = session.total_transactions)
    /\ [](AnalyzeFailed =>
            /\ risk_assessments = <<>>
            /\ session # NoSession /\ session.status = "processing"
            /\ insertedTx = transactions /\ insertedTx # <<>>)
    /\ [](upload = "error" =>
            /\ risk_assessments = <<>>
            /\ session # NoSession => session.status = "processing"
            /\ session # NoSession =>
                  session.total_transactions = Len(transactions))
    /\ [][/\ (session = NoSession /\ session' # NoSession) =>
                session'.status = "processing"
          /\ session # NoSession =>
                /\ session' # NoSession
                /\ session'.id = session.id
          /\ insertedTx # <<>> => insertedTx' = insertedTx
          /\ risk_assessments # <<>> => risk_assessments' = risk_assessments]_vars

\* the narrative generator answered 429, the function returned 429 with the
\* assessments, and handleUpload ended in its catch with nothing stored
C30_Witness ==
    /\ upload = "error"
    /\ pc = "done"
    /\ response.status = 429
    /\ "assessments" \in DOMAIN response
    /\ risk_assessments = <<>>
    /\ session.status = "processing"

====
